---- MODULE Spec2Model ----
(***************************************************************************)
(* Model of the local translation bridge, bridge/server.mjs: the item      *)
(* normalizer, the translation cache, the output extractor's row           *)
(* normalization, the health monitor and the batch orchestrator.           *)
(*                                                                         *)
(* JavaScript strings are TLA+ strings.  A JavaScript value whose type the *)
(* code tests (typeof, Array.isArray) is a record tagged with its type in  *)
(* field t.  A Map is the sequence of its entries in insertion order.      *)
(***************************************************************************)
EXTENDS Integers, Sequences, FiniteSets, TLC

VARIABLES
    translationCache,     \* server.mjs:20  the Map, entries in insertion order
    healthSnapshot,       \* server.mjs:21  null or the last stored snapshot
    healthSnapshotAgeMs,  \* server.mjs:22  Date.now() - healthSnapshotAt, saturated at the TTL
    req,                  \* per request slot: the locals of the handler and where it awaits
    workload,             \* which clients and which tool the service runs against
    normIn, normOut,      \* normalizeItems applied to a raw list
    keyIn, keyOut,        \* cacheKey applied to two requests' options and texts
    insertedAt, putCount, \* cache history: the put that inserted each present key
    lastOp,               \* the last cache operation and what it returned
    proc,                 \* one subprocess invocation: the child, the timers, the promise
    parseIn, parseOut,    \* parseTranslationOutput applied to a raw output and a chunk
    mergeOut              \* the merge of translateBatch applied to the rows it returned

vars ==
    <<translationCache, healthSnapshot, healthSnapshotAgeMs, req, workload,
      normIn, normOut, keyIn, keyOut, insertedAt, putCount, lastOp,
      proc, parseIn, parseOut, mergeOut>>

svcVars == <<translationCache, healthSnapshot, healthSnapshotAgeMs, req, workload>>
normVars == <<normIn, normOut>>
keyVars == <<keyIn, keyOut>>
histVars == <<insertedAt, putCount, lastOp>>
toolVars == <<proc, parseIn, parseOut, mergeOut>>
pureVars == <<workload, normVars, keyVars, histVars, toolVars>>

(***************************************************************************)
(* Program constants.                                                      *)
(***************************************************************************)
DEFAULT_BATCH_SIZE == 6
DEFAULT_MAX_CHARS == 1200
HEALTH_TTL_MS == 10000

\* The capacity of the model's cache.
CacheCapacity == 2

\* server.mjs:15 sets 3000; the model runs the same code with the capacity
\* scaled down so that a full cache is reached.
MAX_CACHE_SIZE == CacheCapacity

TRANSLATION_MODES == {"bilingual", "translation-only"}
TRANSLATION_TONES == {"natural", "faithful", "concise"}

\* U+0001, the separator cacheKey joins with, written as a printable character.
SEP == "|"

(***************************************************************************)
(* JavaScript values.                                                      *)
(***************************************************************************)
JsString(s) == [t |-> "string", v |-> s]
\* A number is v / d with d > 0, or an infinity (inf is its sign, 0 for a
\* finite number): JSON.parse gives Infinity for a numeral such as 1e999.
\* It never gives NaN.
JsNumber(n) == [t |-> "number", v |-> n, d |-> 1, inf |-> 0]
JsFraction(n, d) == [t |-> "number", v |-> n, d |-> d, inf |-> 0]
JsInfinity(sign) == [t |-> "number", v |-> 0, d |-> 1, inf |-> sign]
JsUndefined == [t |-> "undefined"]
JsNull == [t |-> "null"]
JsArray(s) == [t |-> "array", v |-> s]
\* An item candidate that is an object: {id, text}.
JsItem(id, text) == [t |-> "object", id |-> id, text |-> text]

IsString(x) == x.t = "string"

Max(a, b) == IF a > b THEN a ELSE b
Min(a, b) == IF a < b THEN a ELSE b

(***************************************************************************)
(* String helpers: String.prototype.trim, slice and replace.               *)
(***************************************************************************)
IsSpace(c) == c \in {" ", "\n", "\r", "\t"}

RECURSIVE TrimStart(_)
TrimStart(s) ==
    IF Len(s) > 0 /\ IsSpace(SubSeq(s, 1, 1)) THEN TrimStart(SubSeq(s, 2, Len(s))) ELSE s

RECURSIVE TrimEnd(_)
TrimEnd(s) ==
    IF Len(s) > 0 /\ IsSpace(SubSeq(s, Len(s), Len(s)))
    THEN TrimEnd(SubSeq(s, 1, Len(s) - 1))
    ELSE s

Trim(s) == TrimEnd(TrimStart(s))

\* text.slice(0, n)
SliceTo(s, n) == SubSeq(s, 1, Min(n, Len(s)))

\* text.replace(/\r\n/g, "\n"), computed on the two halves of the text, cut
\* so that no \r\n is split.
RECURSIVE ReplaceCrLf(_)
ReplaceCrLf(s) ==
    IF Len(s) < 2 THEN s
    ELSE IF Len(s) = 2 THEN (IF s = "\r\n" THEN "\n" ELSE s)
    ELSE LET half == Len(s) \div 2
             cut == IF SubSeq(s, half, half + 1) = "\r\n" THEN half + 1 ELSE half
         IN  ReplaceCrLf(SubSeq(s, 1, cut)) \o ReplaceCrLf(SubSeq(s, cut + 1, Len(s)))

(***************************************************************************)
(* normalizeItems, server.mjs:116-143.  index counts from 1 here, so the   *)
(* generated id item-${index + 1} of the code is item-<index>.             *)
(***************************************************************************)
GeneratedId(index) == "item-" \o ToString(index)

\* A variant that keeps the caller's id as it was sent.
ItemIdUntrimmed(current, index) ==
    IF IsString(current.id) /\ Len(Trim(current.id.v)) > 0
    THEN current.id.v
    ELSE GeneratedId(index)

ItemId(current, index) ==
    IF IsString(current.id) /\ Len(Trim(current.id.v)) > 0
    THEN Trim(current.id.v)
    ELSE GeneratedId(index)

ItemText(current) ==
    IF IsString(current.text) THEN Trim(ReplaceCrLf(current.text.v)) ELSE ""

Clip(text, maxCharsPerItem) ==
    IF Len(text) > maxCharsPerItem THEN SliceTo(text, maxCharsPerItem) \o "..." ELSE text

RECURSIVE normalizeLoop(_, _, _, _)
normalizeLoop(rawItems, index, maxCharsPerItem, items) ==
    IF index > Len(rawItems) THEN items
    ELSE LET current == rawItems[index]
         IN  IF current.t # "object"
             THEN normalizeLoop(rawItems, index + 1, maxCharsPerItem, items)
             ELSE IF ItemText(current) = ""
             THEN normalizeLoop(rawItems, index + 1, maxCharsPerItem, items)
             ELSE normalizeLoop(rawItems, index + 1, maxCharsPerItem,
                      Append(items, [id |-> ItemId(current, index),
                                     text |-> Clip(ItemText(current), maxCharsPerItem)]))

normalizeItems(rawItems, maxCharsPerItem) ==
    IF rawItems.t # "array" THEN <<>>
    ELSE normalizeLoop(rawItems.v, 1, maxCharsPerItem, <<>>)

(***************************************************************************)
(* chunk, server.mjs:145-151.                                              *)
(***************************************************************************)
\* A variant whose chunks hold one item more than chunkSize.
RECURSIVE chunkLoopOneMore(_, _, _, _)
chunkLoopOneMore(items, index, chunkSize, chunks) ==
    IF index > Len(items) THEN chunks
    ELSE chunkLoopOneMore(items, index + chunkSize + 1, chunkSize,
             Append(chunks, SubSeq(items, index, Min(index + chunkSize, Len(items)))))

RECURSIVE chunkLoop(_, _, _, _)
chunkLoop(items, index, chunkSize, chunks) ==
    IF index > Len(items) THEN chunks
    ELSE chunkLoop(items, index + chunkSize, chunkSize,
             Append(chunks, SubSeq(items, index, Min(index + chunkSize - 1, Len(items)))))

chunk(items, chunkSize) == chunkLoop(items, 1, chunkSize, <<>>)

(***************************************************************************)
(* The options handleTranslate reads from the body and the items it        *)
(* normalizes, server.mjs:606-615.                                         *)
(***************************************************************************)
\* Math.floor of a finite number.
MathFloor(value) == value.v \div value.d

\* A variant that rounds up.
clampNumberRoundingUp(value, min, max, fallback) ==
    IF value.t # "number" THEN fallback
    ELSE IF value.inf > 0 THEN max
    ELSE IF value.inf < 0 THEN min
    ELSE Min(max, Max(min, (value.v + value.d - 1) \div value.d))

\* Lines 30-35.  Math.floor keeps an infinity, which Math.max and Math.min
\* then bring to the bound on its side.
clampNumber(value, min, max, fallback) ==
    IF value.t # "number" THEN fallback
    ELSE IF value.inf > 0 THEN max
    ELSE IF value.inf < 0 THEN min
    ELSE Min(max, Max(min, MathFloor(value)))

BodyOptions(body) ==
    [sourceLang |-> IF IsString(body.sourceLang) THEN body.sourceLang.v ELSE "auto",
     targetLang |-> IF IsString(body.targetLang) THEN body.targetLang.v ELSE "zh-CN",
     model |-> IF IsString(body.model) /\ Trim(body.model.v) # ""
               THEN Trim(body.model.v) ELSE "",
     mode |-> IF IsString(body.mode) /\ body.mode.v \in TRANSLATION_MODES
              THEN body.mode.v ELSE "bilingual",
     tone |-> IF IsString(body.tone) /\ body.tone.v \in TRANSLATION_TONES
              THEN body.tone.v ELSE "natural",
     batchSize |-> clampNumber(body.batchSize, 1, 20, DEFAULT_BATCH_SIZE),
     maxCharsPerItem |-> clampNumber(body.maxCharsPerItem, 100, 5000, DEFAULT_MAX_CHARS),
     items |-> normalizeItems(body.items,
                   clampNumber(body.maxCharsPerItem, 100, 5000, DEFAULT_MAX_CHARS))]

(***************************************************************************)
(* cacheKey, server.mjs:507-516: the six parts joined with U+0001.         *)
(* options.model || "" is options.model, a string.                         *)
(***************************************************************************)
cacheKey(item, options) ==
    options.sourceLang \o SEP \o options.targetLang \o SEP \o options.model \o SEP
        \o options.mode \o SEP \o options.tone \o SEP \o item.text

(***************************************************************************)
(* Map: has, get, set, delete and the first key of keys().  set keeps the  *)
(* place of a key that is present and appends one that is not.             *)
(***************************************************************************)
MapKeys(m) == {m[i].key : i \in 1..Len(m)}

MapHas(m, k) == k \in MapKeys(m)

MapGet(m, k) == m[CHOOSE i \in 1..Len(m) : m[i].key = k].value

MapSet(m, k, v) ==
    IF MapHas(m, k)
    THEN [i \in 1..Len(m) |-> IF m[i].key = k THEN [key |-> k, value |-> v] ELSE m[i]]
    ELSE Append(m, [key |-> k, value |-> v])

MapDelete(m, k) == SelectSeq(m, LAMBDA e : e.key # k)

(***************************************************************************)
(* setCacheValue, server.mjs:360-368.  A key is never the empty string     *)
(* (cacheKey always holds five separators), so firstKey is truthy exactly  *)
(* when the Map is not empty.                                              *)
(***************************************************************************)
\* A variant that never evicts.
setCacheValueOpsNoEviction(cache, key, value) ==
    <<[op |-> "set", key |-> key, value |-> value]>>

\* A variant that evicts the entry inserted last.
setCacheValueOpsEvictNewest(cache, key, value) ==
    (IF Len(cache) >= MAX_CACHE_SIZE /\ Len(cache) > 0
     THEN <<[op |-> "delete", key |-> cache[Len(cache)].key, value |-> ""]>>
     ELSE <<>>)
    \o <<[op |-> "set", key |-> key, value |-> value]>>

\* A variant that evicts the two oldest entries of a full cache.
setCacheValueOpsEvictsTwice(cache, key, value) ==
    (IF Len(cache) >= MAX_CACHE_SIZE /\ Len(cache) > 0
     THEN [i \in 1..Min(2, Len(cache)) |-> [op |-> "delete", key |-> cache[i].key, value |-> ""]]
     ELSE <<>>)
    \o <<[op |-> "set", key |-> key, value |-> value]>>

\* The Map operations one call performs, in order.
setCacheValueOps(cache, key, value) ==
    (IF Len(cache) >= MAX_CACHE_SIZE /\ Len(cache) > 0 /\ cache[1].key # ""
     THEN <<[op |-> "delete", key |-> cache[1].key, value |-> ""]>>
     ELSE <<>>)
    \o <<[op |-> "set", key |-> key, value |-> value]>>

RECURSIVE MapApply(_, _)
MapApply(m, ops) ==
    IF ops = <<>> THEN m
    ELSE MapApply(IF Head(ops).op = "delete" THEN MapDelete(m, Head(ops).key)
                  ELSE MapSet(m, Head(ops).key, Head(ops).value),
                  Tail(ops))

setCacheValue(cache, key, value) == MapApply(cache, setCacheValueOps(cache, key, value))

(***************************************************************************)
(* The output extractor's row normalization, server.mjs:291-336, on the    *)
(* parsed JSON value.  A row object carries the four fields the code       *)
(* reads; a field the tool left out is JsUndefined.                        *)
(***************************************************************************)
\* An object of the tool's answer, by the properties the code reads; a
\* property the object does not have is undefined.
ObjectKeys == {"id", "translatedText", "translation", "text", "results", "translations"}

EmptyObject ==
    [t |-> "object", id |-> JsUndefined, translatedText |-> JsUndefined,
     translation |-> JsUndefined, text |-> JsUndefined,
     results |-> JsUndefined, translations |-> JsUndefined]

JsRow(id, translatedText) ==
    [EmptyObject EXCEPT !.id = id, !.translatedText = translatedText]

JsResults(rows) == [EmptyObject EXCEPT !.results = JsArray(rows)]

ParsedRows(parsed) ==
    IF parsed.t = "array" THEN parsed.v
    ELSE IF parsed.t = "object"
    THEN IF parsed.results.t = "array" THEN parsed.results.v
         ELSE IF parsed.translations.t = "array" THEN parsed.translations.v
         ELSE <<>>
    ELSE <<>>

RowText(row) ==
    IF IsString(row.translatedText) THEN row.translatedText.v
    ELSE IF IsString(row.translation) THEN row.translation.v
    ELSE IF IsString(row.text) THEN row.text.v
    ELSE ""

RECURSIVE normalizeRowsLoop(_, _, _, _)
normalizeRowsLoop(rows, index, batchItems, normalized) ==
    IF index > Len(rows) THEN normalized
    ELSE LET row == rows[index]
             hasSource == index <= Len(batchItems)
         IN  IF IsString(row)
             THEN normalizeRowsLoop(rows, index + 1, batchItems,
                      IF hasSource
                      THEN Append(normalized, [id |-> batchItems[index].id,
                                               translatedText |-> Trim(row.v)])
                      ELSE normalized)
             ELSE IF row.t # "object"
             THEN normalizeRowsLoop(rows, index + 1, batchItems, normalized)
             ELSE LET id == IF IsString(row.id) THEN row.id.v
                            ELSE IF hasSource THEN batchItems[index].id ELSE ""
                      translatedText == RowText(row)
                  IN  normalizeRowsLoop(rows, index + 1, batchItems,
                          IF id # "" /\ Trim(translatedText) # ""
                          THEN Append(normalized, [id |-> id,
                                                   translatedText |-> Trim(translatedText)])
                          ELSE normalized)

normalizeParsedResults(parsed, batchItems) ==
    normalizeRowsLoop(ParsedRows(parsed), 1, batchItems, <<>>)

(***************************************************************************)
(* JSON.parse, for the JSON the tool's answers are made of: objects,       *)
(* arrays, strings with the escapes of the quote, the backslash, the       *)
(* slash, the newline and the tab, unsigned integers,                      *)
(* true, false, null, and blanks between tokens.  A parse gives ok, the    *)
(* value and the place after it.                                           *)
(***************************************************************************)
CharAt(text, i) == IF i >= 1 /\ i <= Len(text) THEN SubSeq(text, i, i) ELSE ""

JsBoolean(b) == [t |-> "boolean", v |-> b]

ParseFail == [ok |-> FALSE, v |-> JsNull, next |-> 0]

Digits == <<"0", "1", "2", "3", "4", "5", "6", "7", "8", "9">>
IsDigit(c) == \E d \in 1..10 : Digits[d] = c
DigitValue(c) == (CHOOSE d \in 1..10 : Digits[d] = c) - 1

RECURSIVE skipBlanks(_, _)
skipBlanks(text, i) ==
    IF i <= Len(text) /\ IsSpace(CharAt(text, i)) THEN skipBlanks(text, i + 1) ELSE i

StartsWithAt(text, i, word) ==
    i + Len(word) - 1 <= Len(text) /\ SubSeq(text, i, i + Len(word) - 1) = word

\* The characters after an opening quote, up to the closing one.
RECURSIVE parseStringBody(_, _, _)
parseStringBody(text, i, acc) ==
    LET c == CharAt(text, i)
    IN  IF c = "" \/ c = "\n" \/ c = "\r" \/ c = "\t" THEN ParseFail
        ELSE IF c = "\"" THEN [ok |-> TRUE, v |-> JsString(acc), next |-> i + 1]
        ELSE IF c = "\\"
        THEN LET e == CharAt(text, i + 1)
             IN  IF e = "\"" \/ e = "\\" \/ e = "/"
                 THEN parseStringBody(text, i + 2, acc \o e)
                 ELSE IF e = "n" THEN parseStringBody(text, i + 2, acc \o "\n")
                 ELSE IF e = "t" THEN parseStringBody(text, i + 2, acc \o "\t")
                 ELSE ParseFail
        ELSE parseStringBody(text, i + 1, acc \o c)

RECURSIVE parseDigits(_, _, _)
parseDigits(text, i, n) ==
    IF IsDigit(CharAt(text, i)) THEN parseDigits(text, i + 1, 10 * n + DigitValue(CharAt(text, i)))
    ELSE [ok |-> TRUE, v |-> JsNumber(n), next |-> i]

RECURSIVE parseValue(_, _)
RECURSIVE parseElements(_, _, _)
RECURSIVE parseMembers(_, _, _)

\* After "[" or after a comma: a value, then "," or "]".
parseElements(text, i, acc) ==
    LET value == parseValue(text, i)
        j == skipBlanks(text, value.next)
    IN  IF ~value.ok THEN ParseFail
        ELSE IF CharAt(text, j) = ","
        THEN parseElements(text, j + 1, Append(acc, value.v))
        ELSE IF CharAt(text, j) = "]"
        THEN [ok |-> TRUE, v |-> JsArray(Append(acc, value.v)), next |-> j + 1]
        ELSE ParseFail

\* After "{" or after a comma: "key" : value, then "," or "}".  A key given
\* again replaces the value it had.
parseMembers(text, i, obj) ==
    LET k == skipBlanks(text, i)
        key == IF CharAt(text, k) = "\"" THEN parseStringBody(text, k + 1, "") ELSE ParseFail
        colon == skipBlanks(text, key.next)
        value == IF key.ok /\ CharAt(text, colon) = ":" THEN parseValue(text, colon + 1)
                 ELSE ParseFail
        j == skipBlanks(text, value.next)
        next == IF value.ok /\ key.v.v \in ObjectKeys
                THEN [obj EXCEPT ![key.v.v] = value.v] ELSE obj
    IN  IF ~value.ok THEN ParseFail
        ELSE IF CharAt(text, j) = "," THEN parseMembers(text, j + 1, next)
        ELSE IF CharAt(text, j) = "}" THEN [ok |-> TRUE, v |-> next, next |-> j + 1]
        ELSE ParseFail

parseValue(text, i) ==
    LET j == skipBlanks(text, i)
        c == CharAt(text, j)
    IN  IF c = "{"
        THEN IF CharAt(text, skipBlanks(text, j + 1)) = "}"
             THEN [ok |-> TRUE, v |-> EmptyObject, next |-> skipBlanks(text, j + 1) + 1]
             ELSE parseMembers(text, j + 1, EmptyObject)
        ELSE IF c = "["
        THEN IF CharAt(text, skipBlanks(text, j + 1)) = "]"
             THEN [ok |-> TRUE, v |-> JsArray(<<>>), next |-> skipBlanks(text, j + 1) + 1]
             ELSE parseElements(text, j + 1, <<>>)
        ELSE IF c = "\"" THEN parseStringBody(text, j + 1, "")
        ELSE IF c = "0" THEN [ok |-> TRUE, v |-> JsNumber(0), next |-> j + 1]
        ELSE IF IsDigit(c) THEN parseDigits(text, j, 0)
        ELSE IF StartsWithAt(text, j, "true")
        THEN [ok |-> TRUE, v |-> JsBoolean(TRUE), next |-> j + 4]
        ELSE IF StartsWithAt(text, j, "false")
        THEN [ok |-> TRUE, v |-> JsBoolean(FALSE), next |-> j + 5]
        ELSE IF StartsWithAt(text, j, "null")
        THEN [ok |-> TRUE, v |-> JsNull, next |-> j + 4]
        ELSE ParseFail

\* JSON.parse(text): the value, when the whole text is one.
JSONparse(text) ==
    LET value == parseValue(text, 1)
    IN  IF value.ok /\ skipBlanks(text, value.next) = Len(text) + 1 THEN value
        ELSE ParseFail

(***************************************************************************)
(* sliceBalancedJson, server.mjs:199-243.  null is "".                     *)
(***************************************************************************)
\* A variant of the turn in which a backslash escapes nothing.
sliceStepWithoutEscapes(char, s) ==
    IF s.inString
    THEN IF char = "\"" THEN [s EXCEPT !.inString = FALSE] ELSE s
    ELSE IF char = "\"" THEN [s EXCEPT !.inString = TRUE]
    ELSE IF char = "{" \/ char = "[" THEN [s EXCEPT !.stack = Append(@, char)]
    ELSE IF char = "}" \/ char = "]"
    THEN IF s.stack = <<>> THEN [s EXCEPT !.verdict = "null"]
         ELSE LET open == s.stack[Len(s.stack)]
                  rest == SubSeq(s.stack, 1, Len(s.stack) - 1)
              IN  IF (open = "{" /\ char # "}") \/ (open = "[" /\ char # "]")
                  THEN [s EXCEPT !.verdict = "null"]
                  ELSE IF rest = <<>> THEN [s EXCEPT !.stack = rest, !.verdict = "done"]
                  ELSE [s EXCEPT !.stack = rest]
    ELSE s

\* One turn of the loop of lines 205-240 on the character char: the stack
\* and the two flags after it, and whether the loop goes on, returns the
\* slice ("done") or returns null.
sliceStep(char, s) ==
    IF s.inString
    THEN IF s.escaped THEN [s EXCEPT !.escaped = FALSE]
         ELSE IF char = "\\" THEN [s EXCEPT !.escaped = TRUE]
         ELSE IF char = "\"" THEN [s EXCEPT !.inString = FALSE]
         ELSE s
    ELSE IF char = "\"" THEN [s EXCEPT !.inString = TRUE]
    ELSE IF char = "{" \/ char = "[" THEN [s EXCEPT !.stack = Append(@, char)]
    ELSE IF char = "}" \/ char = "]"
    THEN IF s.stack = <<>> THEN [s EXCEPT !.verdict = "null"]
         ELSE LET open == s.stack[Len(s.stack)]
                  rest == SubSeq(s.stack, 1, Len(s.stack) - 1)
              IN  IF (open = "{" /\ char # "}") \/ (open = "[" /\ char # "]")
                  THEN [s EXCEPT !.verdict = "null"]
                  ELSE IF rest = <<>> THEN [s EXCEPT !.stack = rest, !.verdict = "done"]
                  ELSE [s EXCEPT !.stack = rest]
    ELSE s

\* The turns of the loop from index on, at most count of them, while the
\* loop goes on; at is the index of the last turn taken.
RECURSIVE sliceSteps(_, _, _, _)
sliceSteps(text, index, count, s) ==
    IF count = 0 \/ index > Len(text) \/ s.verdict # "go" THEN s
    ELSE sliceSteps(text, index + 1, count - 1,
                    [sliceStep(CharAt(text, index), s) EXCEPT !.at = index])

\* The loop, taken sixteen turns at a time.
RECURSIVE sliceLoop(_, _, _, _)
sliceLoop(text, startIndex, index, s) ==
    IF index > Len(text) THEN ""
    ELSE LET after == sliceSteps(text, index, 16, s)
         IN  IF after.verdict = "go" THEN sliceLoop(text, startIndex, index + 16, after)
             ELSE IF after.verdict = "done" THEN SubSeq(text, startIndex, after.at)
             ELSE ""

sliceBalancedJson(text, startIndex) ==
    sliceLoop(text, startIndex, startIndex,
              [stack |-> <<>>, inString |-> FALSE, escaped |-> FALSE, verdict |-> "go",
               at |-> startIndex])

(***************************************************************************)
(* extractJsonCandidate, server.mjs:245-289.  null is "".                  *)
(***************************************************************************)
\* The first place at or after i where word starts, 0 when there is none.
IndexOfFrom(text, word, i) ==
    LET hits == {j \in i..Len(text) : StartsWithAt(text, j, word)}
    IN  IF hits = {} THEN 0 ELSE CHOOSE j \in hits : \A k \in hits : j <= k

\* Three backquotes; the backquote is written ~ here.
Fence == "~~~"

\* The regular expression of line 259, a fence, json or not, blanks, the
\* shortest text up to the next fence: the text captured by the first
\* match, "" when nothing matches.
FencedCapture(trimmed) ==
    LET open == IndexOfFrom(trimmed, Fence, 1)
        afterOpen == open + 3
        word == SubSeq(trimmed, afterOpen, Min(Len(trimmed), afterOpen + 3))
        isJson == /\ Len(word) = 4
                  /\ CharAt(word, 1) \in {"j", "J"} /\ CharAt(word, 2) \in {"s", "S"}
                  /\ CharAt(word, 3) \in {"o", "O"} /\ CharAt(word, 4) \in {"n", "N"}
        afterWord == IF isJson /\ IndexOfFrom(trimmed, Fence, afterOpen + 4) # 0
                     THEN afterOpen + 4 ELSE afterOpen
        from == skipBlanks(trimmed, afterWord)
        close == IndexOfFrom(trimmed, Fence, afterWord)
        start == IF close # 0 /\ from > close THEN close ELSE from
    IN  IF open = 0 \/ close = 0 THEN ""
        ELSE SubSeq(trimmed, start, close - 1)

\* The loop of lines 270-286: the first balanced slice that JSON.parse accepts.
RECURSIVE scanCandidates(_, _)
scanCandidates(trimmed, index) ==
    IF index > Len(trimmed) THEN ""
    ELSE LET char == CharAt(trimmed, index)
             candidate == IF char = "{" \/ char = "[" THEN sliceBalancedJson(trimmed, index)
                          ELSE ""
         IN  IF candidate # "" /\ JSONparse(candidate).ok THEN candidate
             ELSE scanCandidates(trimmed, index + 1)

extractJsonCandidate(text) ==
    LET trimmed == Trim(text)
        fenced == Trim(FencedCapture(trimmed))
    IN  IF trimmed = "" THEN ""
        ELSE IF JSONparse(trimmed).ok THEN trimmed
        ELSE IF FencedCapture(trimmed) # "" /\ JSONparse(fenced).ok THEN fenced
        ELSE scanCandidates(trimmed, 1)

\* A raw output as parseTranslationOutput takes it: the text and the value
\* of the candidate found in it, lines 344-346.
RawOutput(text) ==
    LET jsonCandidate == extractJsonCandidate(Trim(text))
    IN  [text |-> text,
         json |-> IF jsonCandidate = "" THEN [t |-> "none"] ELSE JSONparse(jsonCandidate).v]

(***************************************************************************)
(* parseTranslationOutput, server.mjs:338-358.  A raw output is its text   *)
(* together with the value JSON.parse gives for the candidate that         *)
(* extractJsonCandidate finds in it (NoJson when it finds none).           *)
(***************************************************************************)
NoJson == [t |-> "none"]

StripQuotesWithoutStripping(output) == Trim(output)

\* output.replace(/^"|"$/g, "").trim()
StripQuotes(output) ==
    LET a == IF Len(output) > 0 /\ SubSeq(output, 1, 1) = "\""
             THEN SubSeq(output, 2, Len(output)) ELSE output
        b == IF Len(a) > 0 /\ SubSeq(a, Len(a), Len(a)) = "\""
             THEN SubSeq(a, 1, Len(a) - 1) ELSE a
    IN  Trim(b)

parseTranslationOutput(rawOutput, batchItems) ==
    LET output == Trim(rawOutput.text)
        normalized ==
            IF rawOutput.json = NoJson THEN <<>>
            ELSE normalizeParsedResults(rawOutput.json, batchItems)
    IN  IF output = "" THEN [ok |-> FALSE, rows |-> <<>>, error |-> "Codex returned empty output"]
        ELSE IF Len(normalized) > 0 THEN [ok |-> TRUE, rows |-> normalized, error |-> ""]
        ELSE IF Len(batchItems) = 1
        THEN [ok |-> TRUE,
              rows |-> <<[id |-> batchItems[1].id, translatedText |-> StripQuotes(output)]>>,
              error |-> ""]
        ELSE [ok |-> FALSE, rows |-> <<>>, error |-> "Unable to parse Codex output as translation JSON"]

(***************************************************************************)
(* translateBatch, server.mjs:518-595, step by step.                       *)
(***************************************************************************)

\* Lines 523-531: the partition of the items into cache hits and pending.
RECURSIVE partitionLoopNoLookup(_, _, _, _, _)
partitionLoopNoLookup(items, index, options, cache, acc) ==
    IF index > Len(items) THEN acc
    ELSE partitionLoopNoLookup(items, index + 1, options, cache,
             [acc EXCEPT !.pending = Append(@, items[index])])

RECURSIVE partitionLoop(_, _, _, _, _)
partitionLoop(items, index, options, cache, acc) ==
    IF index > Len(items) THEN acc
    ELSE LET item == items[index]
             key == cacheKey(item, options)
         IN  IF MapHas(cache, key)
             THEN partitionLoop(items, index + 1, options, cache,
                      [acc EXCEPT !.resultById = MapSet(@, item.id, MapGet(cache, key)),
                                  !.cacheHits = @ + 1])
             ELSE partitionLoop(items, index + 1, options, cache,
                      [acc EXCEPT !.pending = Append(@, item)])

partition(options, cache) ==
    partitionLoop(options.items, 1, options, cache,
                  [resultById |-> <<>>, pending |-> <<>>, cacheHits |-> 0])

\* Line 564: new Map(parsedRows.map((row) => [row.id, row.translatedText])).
RECURSIVE MapFromRows(_, _)
MapFromRows(rows, m) ==
    IF rows = <<>> THEN m
    ELSE MapFromRows(Tail(rows), MapSet(m, Head(rows).id, Head(rows).translatedText))

\* A variant of the merge that stores the source text of an item without a
\* row in the cache as well.
RECURSIVE mergeLoopCachingFallback(_, _, _, _, _)
mergeLoopCachingFallback(batch, index, parsedById, options, acc) ==
    IF index > Len(batch) THEN acc
    ELSE LET item == batch[index]
             translated == IF MapHas(parsedById, item.id) THEN MapGet(parsedById, item.id)
                           ELSE ""
             key == cacheKey(item, options)
         IN  IF translated = ""
             THEN mergeLoopCachingFallback(batch, index + 1, parsedById, options,
                      [acc EXCEPT !.warnings = Append(@, item.id),
                                  !.resultById = MapSet(@, item.id, item.text),
                                  !.cache = MapSet(@, key, item.text)])
             ELSE mergeLoopCachingFallback(batch, index + 1, parsedById, options,
                      [acc EXCEPT !.resultById = MapSet(@, item.id, translated),
                                  !.cache = MapSet(@, key, translated)])

\* Lines 566-576: the merge of one chunk.  acc holds resultById, warnings,
\* the cache and the number of entries the puts evicted.
RECURSIVE mergeLoop(_, _, _, _, _)
mergeLoop(batch, index, parsedById, options, acc) ==
    IF index > Len(batch) THEN acc
    ELSE LET item == batch[index]
             translated == IF MapHas(parsedById, item.id) THEN MapGet(parsedById, item.id)
                           ELSE ""
         IN  IF translated = ""
             THEN mergeLoop(batch, index + 1, parsedById, options,
                      [acc EXCEPT !.warnings = Append(@, item.id),
                                  !.resultById = MapSet(@, item.id, item.text)])
             ELSE LET key == cacheKey(item, options)
                      ops == setCacheValueOps(acc.cache, key, translated)
                  IN  mergeLoop(batch, index + 1, parsedById, options,
                          [acc EXCEPT !.resultById = MapSet(@, item.id, translated),
                                      !.cache = setCacheValue(@, key, translated),
                                      !.evicted = @ + (Len(ops) - 1)])

\* Lines 579-594: the response body of a request that succeeded.
\* resultById.get(item.id) || item.text
assemble(options, resultById, warnings, cacheHits) ==
    [statusCode |-> 200,
     error |-> "",
     results |-> [i \in 1..Len(options.items) |->
                     [id |-> options.items[i].id,
                      translatedText |->
                          IF MapHas(resultById, options.items[i].id)
                                 /\ MapGet(resultById, options.items[i].id) # ""
                          THEN MapGet(resultById, options.items[i].id)
                          ELSE options.items[i].text]],
     warnings |-> warnings,
     meta |-> [total |-> Len(options.items),
               cacheHits |-> cacheHits,
               generated |-> Len(options.items) - cacheHits]]

\* The catch of the request handler, server.mjs:692-699: the status code of
\* the error (500 when it has none) and its message.
errorResponse(statusCode, message) ==
    [statusCode |-> statusCode, error |-> message, results |-> <<>>, warnings |-> <<>>,
     meta |-> [total |-> 0, cacheHits |-> 0, generated |-> 0]]

(***************************************************************************)
(* Values of the variables a specification does not use.                   *)
(***************************************************************************)
Off == "off"
NotRun == [t |-> "notrun"]

SvcOff ==
    /\ translationCache = Off
    /\ healthSnapshot = Off
    /\ healthSnapshotAgeMs = Off
    /\ req = Off
    /\ workload = Off

NormOff == normIn = Off /\ normOut = Off

KeyOff == keyIn = Off /\ keyOut = Off

HistOff == insertedAt = Off /\ putCount = Off /\ lastOp = Off

ToolOff == proc = Off /\ parseIn = Off /\ parseOut = Off /\ mergeOut = Off

RECURSIVE SeqsUpTo(_, _)
SeqsUpTo(S, n) ==
    IF n = 0 THEN {<<>>}
    ELSE LET shorter == SeqsUpTo(S, n - 1)
         IN  shorter \cup {Append(s, x) : s \in {q \in shorter : Len(q) = n - 1}, x \in S}

(***************************************************************************)
(* SpecNorm: normalizeItems applied to every raw list of at most MaxRaw    *)
(* candidates.  Ids are strings (with surrounding blanks, blank, or equal  *)
(* to a generated id) or missing; texts are strings, blank or missing; a   *)
(* candidate may be null, and the list may be missing altogether.          *)
(***************************************************************************)
MaxRaw == 2

RawIds == {JsString("a"), JsString(" a "), JsString("item-2"), JsString("  "), JsUndefined}
\* A text of 104 characters, longer than the least maxCharsPerItem.
LongText ==
    "0123456789012345678901234567890123456789012345678901234567890123456789012345678901234567890123456789abcd"

RawTexts == {JsString("x"), JsString(" y\r\n"), JsString("  "), JsUndefined, JsString(LongText)}
RawCandidates == {JsItem(id, text) : id \in RawIds, text \in RawTexts} \cup {JsNull}
RawLists == {JsArray(s) : s \in SeqsUpTo(RawCandidates, MaxRaw)} \cup {JsUndefined}

InitNorm ==
    /\ normIn \in [rawItems : RawLists, maxCharsPerItem : {100, DEFAULT_MAX_CHARS}]
    /\ normOut = NotRun
    /\ SvcOff
    /\ KeyOff
    /\ HistOff
    /\ ToolOff

Normalize ==
    /\ normOut = NotRun
    /\ normOut' = [t |-> "items", v |-> normalizeItems(normIn.rawItems, normIn.maxCharsPerItem)]
    /\ UNCHANGED <<normIn, svcVars, keyVars, histVars, toolVars>>

NextNorm == Normalize

SpecNorm == InitNorm /\ [][NextNorm]_vars

(***************************************************************************)
(* SpecKey: cacheKey applied to the options and an item text of two        *)
(* request bodies.  JSON strings may hold U+0001.                          *)
(***************************************************************************)
Body(sourceLang, targetLang, model, mode, tone, batchSize, maxCharsPerItem, items) ==
    [sourceLang |-> sourceLang, targetLang |-> targetLang, model |-> model, mode |-> mode,
     tone |-> tone, batchSize |-> batchSize, maxCharsPerItem |-> maxCharsPerItem,
     items |-> items]

KeyBodies ==
    {Body(sl, tl, m, mo, to, JsUndefined, JsUndefined, JsUndefined) :
        sl \in {JsUndefined, JsString("en"), JsString("en" \o SEP \o "zh")},
        tl \in {JsString("zh"), JsString("zh" \o SEP \o "ja"), JsString("ja")},
        m \in {JsUndefined, JsString(" m ")},
        mo \in {JsUndefined, JsString("translation-only")},
        to \in {JsString("faithful"), JsString("formal")}}

KeyInputs == [body : KeyBodies, text : {"x", "y"}]

KeyParts(in) ==
    LET options == BodyOptions(in.body)
    IN  <<options.sourceLang, options.targetLang, options.model, options.mode,
          options.tone, in.text>>

InitKey ==
    /\ keyIn \in KeyInputs \X KeyInputs
    /\ keyOut = NotRun
    /\ SvcOff
    /\ NormOff
    /\ HistOff
    /\ ToolOff

ComputeKeys ==
    /\ keyOut = NotRun
    /\ keyOut' = [t |-> "keys",
                  v |-> <<cacheKey([text |-> keyIn[1].text], BodyOptions(keyIn[1].body)),
                          cacheKey([text |-> keyIn[2].text], BodyOptions(keyIn[2].body))>>]
    /\ UNCHANGED <<keyIn, svcVars, normVars, histVars, toolVars>>

NextKey == ComputeKeys

SpecKey == InitKey /\ [][NextKey]_vars

(***************************************************************************)
(* SpecOptions: the options handleTranslate reads from a body, lines       *)
(* 606-618, for numbers below, at, between and above the bounds, whole or  *)
(* not, infinite, and for values that are not numbers; for modes and tones *)
(* that are known, unknown or not strings; with one translatable item or   *)
(* none.  rejected tells whether line 617 throws.                          *)
(***************************************************************************)
OptionNumbers ==
    {JsUndefined, JsNull, JsString("5"), JsBoolean(TRUE), JsInfinity(1), JsInfinity(0 - 1),
     JsFraction(1, 2), JsFraction(0 - 1, 2), JsFraction(5, 2), JsFraction(41, 2),
     JsFraction(199, 2), JsFraction(10001, 2)}
        \cup {JsNumber(n) : n \in {0 - 3, 0, 1, 7, 20, 21, 99, 100, 101, 5000, 5001}}

OptionWords ==
    {JsUndefined, JsNull, JsNumber(1), JsString("fancy"), JsString("Bilingual"),
     JsString("translation-only"), JsString("concise")}

OptionBodies ==
    {Body(JsUndefined, JsUndefined, JsUndefined, mo, to, bs, mc, items) :
        mo \in OptionWords, to \in OptionWords, bs \in OptionNumbers, mc \in OptionNumbers,
        items \in {JsArray(<<JsItem(JsUndefined, JsString("x"))>>), JsUndefined}}

InitOptions ==
    /\ keyIn \in OptionBodies
    /\ keyOut = NotRun
    /\ SvcOff
    /\ NormOff
    /\ HistOff
    /\ ToolOff

ReadOptions ==
    /\ keyOut = NotRun
    /\ keyOut' = [t |-> "options", v |-> BodyOptions(keyIn),
                  rejected |-> BodyOptions(keyIn).items = <<>>]
    /\ UNCHANGED <<keyIn, svcVars, normVars, histVars, toolVars>>

NextOptions == ReadOptions

SpecOptions == InitOptions /\ [][NextOptions]_vars

(***************************************************************************)
(* SpecCache: the cache under any sequence of setCacheValue calls and of   *)
(* the reads translateBatch makes (has, then get), server.mjs:525-526.     *)
(* insertedAt[k] is the number of the put that inserted the entry of k     *)
(* now present (0: absent): a Map entry is inserted by a set of a key that *)
(* is not present and lives until it is deleted.                           *)
(***************************************************************************)
MaxPuts == 4

HistKeys == {"k" \o ToString(i) : i \in 1..(MAX_CACHE_SIZE + 1)}
HistValues == {"v1", "v2"}

RECURSIVE StampApply(_, _, _)
StampApply(stamps, ops, n) ==
    IF ops = <<>> THEN stamps
    ELSE StampApply(IF Head(ops).op = "delete"
                    THEN [stamps EXCEPT ![Head(ops).key] = 0]
                    ELSE IF stamps[Head(ops).key] = 0
                    THEN [stamps EXCEPT ![Head(ops).key] = n]
                    ELSE stamps,
                    Tail(ops), n)

\* translationCache.has(key), translationCache.get(key): the Map is not changed.
cacheRead(cache, key) ==
    [cache |-> cache,
     hit |-> MapHas(cache, key),
     value |-> IF MapHas(cache, key) THEN MapGet(cache, key) ELSE ""]

InitCache ==
    /\ translationCache = <<>>
    /\ insertedAt = [k \in HistKeys |-> 0]
    /\ putCount = 0
    /\ lastOp = [op |-> "none", key |-> "", value |-> "", hit |-> FALSE]
    /\ healthSnapshot = Off
    /\ healthSnapshotAgeMs = Off
    /\ req = Off
    /\ workload = Off
    /\ NormOff
    /\ KeyOff
    /\ ToolOff

CachePut(k, v) ==
    /\ putCount < MaxPuts
    /\ translationCache' = setCacheValue(translationCache, k, v)
    /\ putCount' = putCount + 1
    /\ insertedAt' = StampApply(insertedAt, setCacheValueOps(translationCache, k, v),
                                putCount + 1)
    /\ lastOp' = [op |-> "put", key |-> k, value |-> v, hit |-> FALSE]
    /\ UNCHANGED <<healthSnapshot, healthSnapshotAgeMs, req, workload, normVars, keyVars, toolVars>>

CacheGet(k) ==
    LET read == cacheRead(translationCache, k)
    IN  /\ translationCache' = read.cache
        /\ lastOp' = [op |-> "get", key |-> k, value |-> read.value, hit |-> read.hit]
        /\ UNCHANGED <<insertedAt, putCount>>
        /\ UNCHANGED <<healthSnapshot, healthSnapshotAgeMs, req, workload, normVars, keyVars, toolVars>>

NextCache ==
    \/ \E k \in HistKeys, v \in HistValues : CachePut(k, v)
    \/ \E k \in HistKeys : CacheGet(k)

SpecCache == InitCache /\ [][NextCache]_vars

(***************************************************************************)
(* Spec: the service.  Each request slot runs one request handler at a     *)
(* time, server.mjs:659-700; the handlers of different slots interleave at *)
(* their awaits: the read of the body, the two health probes and the       *)
(* translation subprocess of a chunk.  A subprocess is one await: it is    *)
(* spawned by the step that reaches it and its outcome (the tool's, any)   *)
(* arrives in a later step.                                                *)
(***************************************************************************)
NumRequests == 2
MaxItems == 2
TickMs == 5000

Requests == 1..NumRequests

NoOptions ==
    [sourceLang |-> "", targetLang |-> "", model |-> "", mode |-> "", tone |-> "",
     batchSize |-> 0, maxCharsPerItem |-> 0, items |-> <<>>]

NoResponse == errorResponse(0, "")

\* The locals of a handler that has not started.  probes and execs count the
\* subprocesses the handler spawned, evicted the cache entries its puts deleted.
IdleReq ==
    [kind |-> "none", pc |-> "idle", options |-> NoOptions,
     snapshot |-> JsNull, health |-> JsNull, partitioned |-> FALSE,
     resultById |-> <<>>, pending |-> <<>>, batches |-> <<>>, batchIndex |-> 0,
     cacheHits |-> 0, warnings |-> <<>>, codexResult |-> NotRun, parsedById |-> <<>>,
     response |-> NoResponse, probes |-> 0, execs |-> 0, evicted |-> 0]

\* getHealth's snapshot object, server.mjs:471-477 (the two messages left out).
Snapshot(codexInstalled, loggedIn) ==
    [t |-> "object", ok |-> codexInstalled /\ loggedIn,
     codexInstalled |-> codexInstalled, loggedIn |-> loggedIn]

\* A variant that spawns the invocations of all chunks at once.
enterLoopSpawnsAll(rec) ==
    IF rec.batches = <<>>
    THEN [rec EXCEPT !.pc = "done",
                     !.response = assemble(rec.options, rec.resultById, rec.warnings,
                                           rec.cacheHits)]
    ELSE [rec EXCEPT !.pc = "exec", !.batchIndex = 1, !.execs = @ + Len(rec.batches)]

\* The first chunk is reached, or there is none: lines 533-545 and 579-594.
enterLoop(rec) ==
    IF rec.batches = <<>>
    THEN [rec EXCEPT !.pc = "done",
                     !.response = assemble(rec.options, rec.resultById, rec.warnings,
                                           rec.cacheHits)]
    ELSE [rec EXCEPT !.pc = "exec", !.batchIndex = 1, !.execs = @ + 1]

\* translateBatch up to its first await, lines 519-545.
startBatch(rec, cache) ==
    LET parts == partition(rec.options, cache)
    IN  enterLoop([rec EXCEPT !.partitioned = TRUE,
                              !.resultById = parts.resultById,
                              !.pending = parts.pending,
                              !.cacheHits = parts.cacheHits,
                              !.batches = chunk(parts.pending, rec.options.batchSize)])

\* A variant that answers an error with the results gathered so far.
failWithPartialResults(rec, statusCode, message) ==
    [rec EXCEPT !.pc = "done",
                !.response = [errorResponse(statusCode, message) EXCEPT
                                 !.results = [i \in 1..Len(rec.resultById) |->
                                                 [id |-> rec.resultById[i].key,
                                                  translatedText |-> rec.resultById[i].value]]]]

fail(rec, statusCode, message) ==
    [rec EXCEPT !.pc = "done", !.response = errorResponse(statusCode, message)]

\* What follows getHealth's return: the gate of handleTranslate, lines
\* 626-637, or handleHealth's answer, lines 598-599.
afterHealthNoLoginGate(rec, health, cache) ==
    IF rec.kind = "health"
    THEN [rec EXCEPT !.pc = "done", !.health = health,
                     !.response = errorResponse(IF health.ok THEN 200 ELSE 503, "")]
    ELSE IF ~health.codexInstalled
    THEN fail([rec EXCEPT !.health = health], 503, "codex CLI is not available")
    ELSE startBatch([rec EXCEPT !.health = health], cache)

afterHealth(rec, health, cache) ==
    IF rec.kind = "health"
    THEN [rec EXCEPT !.pc = "done", !.health = health,
                     !.response = errorResponse(IF health.ok THEN 200 ELSE 503, "")]
    ELSE IF ~health.codexInstalled
    THEN fail([rec EXCEPT !.health = health], 503, "codex CLI is not available")
    ELSE IF ~health.loggedIn
    THEN fail([rec EXCEPT !.health = health], 503, "OpenAI auth is not ready")
    ELSE startBatch([rec EXCEPT !.health = health], cache)

\* A variant that reuses a stored snapshot of any age.
snapshotIsFreshAtAnyAge(force) ==
    ~force /\ healthSnapshot # JsNull

\* getHealth's first lines, 465-480: the stored snapshot, or the version probe.
snapshotIsFresh(force) ==
    ~force /\ healthSnapshot # JsNull /\ healthSnapshotAgeMs < HEALTH_TTL_MS

\* The raw item lists of a workload, of at most MaxItems candidates.
\*   "batch":  two candidates share the id a, two have no id, one is blank;
\*   "gate", "overlap": one candidate, without id.
Candidates(w) ==
    IF w = "batch"
    THEN {JsItem(JsString("a"), JsString("x")), JsItem(JsString(" a"), JsString("y")),
          JsItem(JsUndefined, JsString("y")), JsItem(JsUndefined, JsString("z")),
          JsItem(JsUndefined, JsString(" "))}
    ELSE IF w = "gate"
    THEN {JsItem(JsUndefined, JsString("x")), JsItem(JsUndefined, JsString(" "))}
    ELSE {JsItem(JsUndefined, JsString("x")), JsItem(JsUndefined, JsString("y")),
          JsItem(JsUndefined, JsString("z"))}

\* A list of two items more than the cache can hold, with distinct texts.
RetryItems ==
    [i \in 1..(MAX_CACHE_SIZE + 2) |-> JsItem(JsUndefined, JsString("x" \o ToString(i)))]

\* The items of a body: a list of candidates, or no list at all; under
\* "retry" always the same list.
ItemLists(w) ==
    IF w = "retry" THEN {JsArray(RetryItems)}
    ELSE {JsArray(s) : s \in SeqsUpTo(Candidates(w), IF w = "batch" THEN MaxItems ELSE 1)}
             \cup {JsUndefined}

Bodies(w) ==
    {Body(JsUndefined, JsUndefined, JsUndefined, JsUndefined, JsUndefined, bs, JsUndefined,
          items) :
        bs \in IF w = "batch" THEN {JsNumber(1), JsUndefined}
               ELSE IF w = "retry" THEN {JsNumber(1)} ELSE {JsUndefined},
        items \in ItemLists(w)}

\* How the tool answers the probes.  Under "gate" in any way; under "batch"
\* and "overlap" it is installed and stays so.
VersionOutcomes(w) == IF w = "gate" THEN {"error", "ok", "fail"} ELSE {"ok"}
LoginOutcomes(w) == BOOLEAN

\* The request slots in use.
Slots(w) == IF w = "overlap" THEN Requests ELSE {1}

ClosedReq == [IdleReq EXCEPT !.pc = "closed"]

InitService(w) ==
    /\ workload = w
    /\ translationCache = <<>>
    /\ healthSnapshot = JsNull
    /\ healthSnapshotAgeMs = HEALTH_TTL_MS
    /\ req = [r \in Requests |-> IF r \in Slots(w) THEN IdleReq ELSE ClosedReq]
    /\ NormOff
    /\ KeyOff
    /\ HistOff
    /\ ToolOff

Init == InitService("batch")
InitGate == InitService("gate")
InitOverlap == InitService("overlap")
InitRetry == InitService("retry")

\* A POST /translate-batch arrives; the handler awaits the body, line 604.
ArriveTranslate(r) ==
    /\ req[r].pc \in {"idle", "done"}
    /\ req' = [req EXCEPT ![r] = [IdleReq EXCEPT !.kind = "translate", !.pc = "readBody"]]
    /\ UNCHANGED <<translationCache, healthSnapshot, healthSnapshotAgeMs, pureVars>>

\* A variant that asks for the health before it looks at the items.
ReceiveBodyHealthFirst(r, body) ==
    /\ req[r].pc = "readBody"
    /\ LET options == BodyOptions(body)
           rec == [req[r] EXCEPT !.options = options]
       IN  req' = [req EXCEPT ![r] =
                      IF snapshotIsFresh(FALSE)
                      THEN IF options.items = <<>>
                           THEN fail(rec, 400, "No translatable items were provided")
                           ELSE afterHealth(rec, healthSnapshot, translationCache)
                      ELSE [rec EXCEPT !.pc = "probeVersion", !.probes = @ + 1]]
    /\ UNCHANGED <<translationCache, healthSnapshot, healthSnapshotAgeMs, pureVars>>

\* The body is read: lines 606-626, then what follows without an await.
ReceiveBody(r, body) ==
    /\ req[r].pc = "readBody"
    /\ LET options == BodyOptions(body)
           rec == [req[r] EXCEPT !.options = options]
       IN  req' = [req EXCEPT ![r] =
                      IF options.items = <<>>
                      THEN fail(rec, 400, "No translatable items were provided")
                      ELSE IF snapshotIsFresh(FALSE)
                      THEN afterHealth(rec, healthSnapshot, translationCache)
                      ELSE [rec EXCEPT !.pc = "probeVersion", !.probes = @ + 1]]
    /\ UNCHANGED <<translationCache, healthSnapshot, healthSnapshotAgeMs, pureVars>>

\* A GET /health arrives: getHealth({force: true}) spawns the version probe.
ArriveHealth(r) ==
    /\ req[r].pc \in {"idle", "done"}
    /\ req' = [req EXCEPT ![r] =
                  [IdleReq EXCEPT !.kind = "health", !.pc = "probeVersion", !.probes = 1]]
    /\ UNCHANGED <<translationCache, healthSnapshot, healthSnapshotAgeMs, pureVars>>

\* codex --version settles, lines 479-493: it could not be spawned
\* ("error"), or it closed with code 0 ("ok") or another code ("fail").
VersionProbeDone(r, outcome) ==
    /\ req[r].pc = "probeVersion"
    /\ IF outcome = "error"
       THEN /\ healthSnapshot' = Snapshot(FALSE, FALSE)
            /\ healthSnapshotAgeMs' = 0
            /\ req' = [req EXCEPT ![r] =
                          afterHealth(req[r], Snapshot(FALSE, FALSE), translationCache)]
       ELSE /\ req' = [req EXCEPT ![r] =
                          [req[r] EXCEPT !.snapshot = Snapshot(outcome = "ok", FALSE),
                                         !.pc = "probeLogin", !.probes = @ + 1]]
            /\ UNCHANGED <<healthSnapshot, healthSnapshotAgeMs>>
    /\ UNCHANGED <<translationCache, pureVars>>

\* codex login status settles, lines 492-505: loggedIn tells whether its
\* output says so (false too when it could not be spawned).
LoginProbeDone(r, loggedIn) ==
    /\ req[r].pc = "probeLogin"
    /\ LET snapshot == Snapshot(req[r].snapshot.codexInstalled, loggedIn)
       IN  /\ healthSnapshot' = snapshot
           /\ healthSnapshotAgeMs' = 0
           /\ req' = [req EXCEPT ![r] =
                         afterHealth([req[r] EXCEPT !.snapshot = snapshot], snapshot,
                                     translationCache)]
    /\ UNCHANGED <<translationCache, pureVars>>

\* Time passes.
Tick ==
    /\ healthSnapshotAgeMs < HEALTH_TTL_MS
    /\ healthSnapshotAgeMs' = Min(HEALTH_TTL_MS, healthSnapshotAgeMs + TickMs)
    /\ UNCHANGED <<translationCache, healthSnapshot, req, pureVars>>

(***************************************************************************)
(* What the tool may leave behind for a chunk: the last-message file and   *)
(* stdout, each a text with the JSON value it holds.                       *)
(***************************************************************************)
RECURSIVE JoinTexts(_, _)
JoinTexts(texts, sep) ==
    IF texts = <<>> THEN ""
    ELSE IF Len(texts) = 1 THEN texts[1]
    ELSE texts[1] \o sep \o JoinTexts(Tail(texts), sep)

Quoted(str) == "\"" \o str \o "\""

RowJsonText(row) ==
    IF IsString(row) THEN Quoted(row.v)
    ELSE "{" \o (IF IsString(row.id) THEN "\"id\":" \o Quoted(row.id.v) \o "," ELSE "")
             \o "\"translatedText\":" \o Quoted(row.translatedText.v) \o "}"

ResultsJsonText(rows) ==
    "{\"results\":[" \o JoinTexts([i \in 1..Len(rows) |-> RowJsonText(rows[i])], ",") \o "]}"

JsonOutput(rows) == [text |-> ResultsJsonText(rows), json |-> JsResults(rows)]
PlainOutput(text) == [text |-> text, json |-> NoJson]
EmptyOutput == PlainOutput("")

\* sanitizeOutput, server.mjs:37-47 (the tool's PATH warning line is not modelled).
sanitizeOutput(output) == [output EXCEPT !.text = Trim(@)]

\* The tool's translation of a source text.
Translate(text) == "T(" \o text \o ")"

\* The row the tool writes for the item at place i of the chunk.
RowFor(batch, i) == JsRow(JsString(batch[i].id), JsString(Translate(batch[i].text)))

\* The rows for the places in S, in the chunk's order.
RowsFor(batch, S) ==
    LET places == SelectSeq([i \in 1..Len(batch) |-> i], LAMBDA i : i \in S)
    IN  [k \in 1..Len(places) |-> RowFor(batch, places[k])]

GoodOutput(batch) == JsonOutput(RowsFor(batch, 1..Len(batch)))

\* What the tool may write for a chunk: strict JSON with a row for each item
\* of any subset of the chunk, the same with a row for an id that is not of
\* the chunk, nothing, blanks, or plain text (bare or quoted).
FileOutputs(batch) ==
    {JsonOutput(RowsFor(batch, S)) : S \in (SUBSET (1..Len(batch))) \ {{}}}
        \cup {JsonOutput(<<JsRow(JsString("zz"), JsString("T(zz)"))>>),
              JsonOutput(<<JsRow(JsString("zz"), JsString("T(zz)"))>>
                             \o RowsFor(batch, {Len(batch)})),
              EmptyOutput, PlainOutput(" "), PlainOutput(Translate(batch[1].text)),
              PlainOutput(Quoted(Translate(batch[1].text)))}

ExecResult(timedOut, code, lastMessageFile, stdout) ==
    [spawnError |-> FALSE, timedOut |-> timedOut, code |-> code,
     lastMessageFile |-> lastMessageFile, stdout |-> stdout]

\* How the tool may end for a chunk.  Under "batch" in any way: it cannot be
\* spawned, it is killed at the timeout with either code and with or without
\* output, or it closes with either code and any output in the file or on
\* stdout.  Under "gate" and "overlap" it answers well, is killed at the
\* timeout, fails without output, or closes with code 0 and no output.
ExecOutcomes(w, batch) ==
    IF w = "batch"
    THEN {[ExecResult(FALSE, 1, EmptyOutput, EmptyOutput) EXCEPT !.spawnError = TRUE]}
            \cup {ExecResult(TRUE, code, file, EmptyOutput) :
                      code \in {0, 1}, file \in {EmptyOutput, GoodOutput(batch)}}
            \cup {ExecResult(FALSE, code, file, EmptyOutput) :
                      code \in {0, 1}, file \in FileOutputs(batch)}
            \cup {ExecResult(FALSE, code, EmptyOutput, stdout) :
                      code \in {0, 1},
                      stdout \in {PlainOutput(Translate(batch[1].text)), GoodOutput(batch)}}
    ELSE {ExecResult(FALSE, 0, GoodOutput(batch), EmptyOutput),
          ExecResult(TRUE, 1, EmptyOutput, EmptyOutput),
          ExecResult(FALSE, 1, EmptyOutput, EmptyOutput),
          ExecResult(FALSE, 0, EmptyOutput, EmptyOutput)}

NoFailure == [statusCode |-> 0, message |-> ""]

invocationFailureTimeoutLast(codexResult, lastMessage, cleanStdout) ==
    IF codexResult.spawnError THEN [statusCode |-> 500, message |-> "spawn failed"]
    ELSE IF codexResult.code # 0 /\ lastMessage.text = "" /\ cleanStdout.text = ""
    THEN [statusCode |-> 502, message |-> "Codex exec failed"]
    ELSE IF codexResult.timedOut /\ lastMessage.text = ""
    THEN [statusCode |-> 504, message |-> "Codex request timed out"]
    ELSE NoFailure

invocationFailureOnAnyCode(codexResult, lastMessage, cleanStdout) ==
    IF codexResult.spawnError THEN [statusCode |-> 500, message |-> "spawn failed"]
    ELSE IF codexResult.timedOut
    THEN [statusCode |-> 504, message |-> "Codex request timed out"]
    ELSE IF codexResult.code # 0
    THEN [statusCode |-> 502, message |-> "Codex exec failed"]
    ELSE NoFailure

\* The errors translateBatch raises for an invocation before it parses the
\* output, lines 545-554; a process that could not be spawned rejects
\* runProcess, lines 417-420, and the handler answers 500, lines 692-699.
invocationFailure(codexResult, lastMessage, cleanStdout) ==
    IF codexResult.spawnError THEN [statusCode |-> 500, message |-> "spawn failed"]
    ELSE IF codexResult.timedOut
    THEN [statusCode |-> 504, message |-> "Codex request timed out"]
    ELSE IF codexResult.code # 0 /\ lastMessage.text = "" /\ cleanStdout.text = ""
    THEN [statusCode |-> 502, message |-> "Codex exec failed"]
    ELSE NoFailure

\* A variant that empties the cache when the chunk fails.
afterExecRollingBack(rec0, cache, codexResult) ==
    LET rec == [rec0 EXCEPT !.codexResult = codexResult]
        batch == rec.batches[rec.batchIndex]
        lastMessage == sanitizeOutput(codexResult.lastMessageFile)
        cleanStdout == sanitizeOutput(codexResult.stdout)
        failure == invocationFailure(codexResult, lastMessage, cleanStdout)
        parsed == parseTranslationOutput(
                      IF lastMessage.text # "" THEN lastMessage ELSE cleanStdout, batch)
        parsedById == MapFromRows(parsed.rows, <<>>)
        merged == mergeLoop(batch, 1, parsedById, rec.options,
                            [resultById |-> rec.resultById, warnings |-> rec.warnings,
                             cache |-> cache, evicted |-> rec.evicted])
        next == [rec EXCEPT !.parsedById = parsedById,
                            !.resultById = merged.resultById,
                            !.warnings = merged.warnings,
                            !.evicted = merged.evicted]
    IN  IF failure # NoFailure
        THEN [rec |-> fail(rec, failure.statusCode, failure.message), cache |-> <<>>]
        ELSE IF ~parsed.ok
        THEN [rec |-> fail(rec, 502, parsed.error), cache |-> <<>>]
        ELSE IF rec.batchIndex < Len(rec.batches)
        THEN [rec |-> [next EXCEPT !.batchIndex = @ + 1, !.execs = @ + 1],
              cache |-> merged.cache]
        ELSE [rec |-> [next EXCEPT !.pc = "done",
                                   !.response = assemble(rec.options, merged.resultById,
                                                         merged.warnings, rec.cacheHits)],
              cache |-> merged.cache]

\* One turn of the loop of translateBatch after its await, lines 545-577,
\* and, after the last chunk, lines 579-594.
afterExec(rec0, cache, codexResult) ==
    LET rec == [rec0 EXCEPT !.codexResult = codexResult]
        batch == rec.batches[rec.batchIndex]
        lastMessage == sanitizeOutput(codexResult.lastMessageFile)
        cleanStdout == sanitizeOutput(codexResult.stdout)
        failure == invocationFailure(codexResult, lastMessage, cleanStdout)
        parsed == parseTranslationOutput(
                      IF lastMessage.text # "" THEN lastMessage ELSE cleanStdout, batch)
        parsedById == MapFromRows(parsed.rows, <<>>)
        merged == mergeLoop(batch, 1, parsedById, rec.options,
                            [resultById |-> rec.resultById, warnings |-> rec.warnings,
                             cache |-> cache, evicted |-> rec.evicted])
        next == [rec EXCEPT !.parsedById = parsedById,
                            !.resultById = merged.resultById,
                            !.warnings = merged.warnings,
                            !.evicted = merged.evicted]
    IN  IF failure # NoFailure
        THEN [rec |-> fail(rec, failure.statusCode, failure.message), cache |-> cache]
        ELSE IF ~parsed.ok
        THEN [rec |-> fail(rec, 502, parsed.error), cache |-> cache]
        ELSE IF rec.batchIndex < Len(rec.batches)
        THEN [rec |-> [next EXCEPT !.batchIndex = @ + 1, !.execs = @ + 1],
              cache |-> merged.cache]
        ELSE [rec |-> [next EXCEPT !.pc = "done",
                                   !.response = assemble(rec.options, merged.resultById,
                                                         merged.warnings, rec.cacheHits)],
              cache |-> merged.cache]

\* The translation subprocess of the current chunk settles.
ExecDone(r) ==
    /\ req[r].pc = "exec"
    /\ \E outcome \in ExecOutcomes(workload, req[r].batches[req[r].batchIndex]) :
           LET after == afterExec(req[r], translationCache, outcome)
           IN  /\ req' = [req EXCEPT ![r] = after.rec]
               /\ translationCache' = after.cache
    /\ UNCHANGED <<healthSnapshot, healthSnapshotAgeMs, pureVars>>

Next ==
    \/ \E r \in Requests : ArriveTranslate(r)
    \/ \E r \in Requests, body \in Bodies(workload) : ReceiveBody(r, body)
    \/ \E r \in Requests : ArriveHealth(r)
    \/ \E r \in Requests, outcome \in VersionOutcomes(workload) : VersionProbeDone(r, outcome)
    \/ \E r \in Requests, loggedIn \in LoginOutcomes(workload) : LoginProbeDone(r, loggedIn)
    \/ \E r \in Requests : ExecDone(r)
    \/ Tick

\* One client sending item lists of every shape, one after the other.
Spec == Init /\ [][Next]_vars

\* One client sending the same long request in chunks of one item, again
\* and again.
SpecRetry == InitRetry /\ [][Next]_vars

\* One client with single items against a tool in any state of health.
SpecGate == InitGate /\ [][Next]_vars

\* Requests of NumRequests clients with single items, overlapping.
SpecOverlap == InitOverlap /\ [][Next]_vars

(***************************************************************************)
(* SpecProc: one subprocess invocation.  runProcess, server.mjs:370-423,   *)
(* alone (a health probe) or wrapped by runCodexTranslation, lines         *)
(* 425-463, which makes a temporary directory before it and removes it     *)
(* after it.  The child runs on its own: it writes to stdout, writes the   *)
(* last-message file, exits with a code, or dies of a signal it was sent   *)
(* (it may ignore SIGTERM); its close event follows its exit.              *)
(***************************************************************************)
MaxOutput == 2

\* The exit code Node reports for a child that a signal ended: null.
SignalCode == -1

Pending == [state |-> "pending"]

NewProc(wrapped) ==
    [wrapped |-> wrapped, pc |-> IF wrapped THEN "mkdtemp" ELSE "running",
     tempDir |-> "none", file |-> "",
     child |-> IF wrapped THEN "none" ELSE "spawning", code |-> 0, signals |-> {},
     timer |-> IF wrapped THEN "none" ELSE "armed", forceKillTimer |-> "null",
     timedOut |-> FALSE, stdout |-> "", promise |-> Pending, lastMessage |-> "",
     result |-> Pending, runningAtExpiry |-> FALSE]

\* clearTimeout(timer); if (forceKillTimer) clearTimeout(forceKillTimer)
clearTimers(p) ==
    [p EXCEPT !.timer = IF @ = "armed" THEN "cleared" ELSE @,
              !.forceKillTimer = IF @ = "armed" THEN "cleared" ELSE @]

\* What follows the settling of runProcess's promise: its caller, a probe,
\* has it, or runCodexTranslation goes on to read the file (resolved, lines
\* 447-452) or to its finally block (rejected, lines 460-462).
afterRunProcess(p) ==
    [p EXCEPT !.pc = IF ~p.wrapped THEN "settled"
                     ELSE IF p.promise.state = "resolved" THEN "readFile" ELSE "rm",
              !.result = IF ~p.wrapped THEN p.promise ELSE @]

\* A variant of the timer's callback that hands the result over at once.
onTimeoutResolves(p) ==
    afterRunProcess(
        [p EXCEPT !.timedOut = TRUE, !.timer = "fired",
                  !.runningAtExpiry = (p.child = "running"),
                  !.signals = IF p.child = "running" THEN @ \cup {"SIGTERM"} ELSE @,
                  !.forceKillTimer = "armed",
                  !.promise = [state |-> "resolved", code |-> SignalCode,
                               stdout |-> p.stdout, timedOut |-> TRUE]])

\* A variant of the timer's callback that sends both signals at once.
onTimeoutKillsAtOnce(p) ==
    [p EXCEPT !.timedOut = TRUE, !.timer = "fired",
              !.runningAtExpiry = (p.child = "running"),
              !.signals = IF p.child = "running" THEN @ \cup {"SIGTERM", "SIGKILL"} ELSE @,
              !.forceKillTimer = "armed"]

\* The timer's callback, lines 382-388.
onTimeout(p) ==
    [p EXCEPT !.timedOut = TRUE, !.timer = "fired",
              !.runningAtExpiry = (p.child = "running"),
              !.signals = IF p.child = "running" THEN @ \cup {"SIGTERM"} ELSE @,
              !.forceKillTimer = "armed"]

\* A variant of the error handler after which the directory is not removed.
onErrorNoCleanup(p) ==
    [clearTimers(p) EXCEPT !.child = "failed", !.promise = [state |-> "rejected"],
                           !.pc = "settled", !.result = [state |-> "rejected"]]

\* child.on("error"), lines 402-408.
onError(p) ==
    afterRunProcess([clearTimers(p) EXCEPT !.child = "failed",
                                           !.promise = [state |-> "rejected"]])

\* child.on("close"), lines 410-416.
onClose(p) ==
    afterRunProcess([clearTimers(p) EXCEPT
                        !.child = "closed",
                        !.promise = [state |-> "resolved", code |-> p.code,
                                     stdout |-> p.stdout, timedOut |-> p.timedOut]])

InitProc ==
    /\ proc \in {NewProc(wrapped) : wrapped \in BOOLEAN}
    /\ parseIn = Off
    /\ parseOut = Off
    /\ mergeOut = Off
    /\ SvcOff
    /\ NormOff
    /\ KeyOff
    /\ HistOff

procRest == <<svcVars, normVars, keyVars, histVars, parseIn, parseOut, mergeOut>>

\* mkdtemp settles, line 426; runProcess then spawns the child and arms the
\* timer, lines 372-388.  When it fails nothing was made and nothing runs.
MkdtempDone(ok) ==
    /\ proc.pc = "mkdtemp"
    /\ proc' = IF ok
               THEN [proc EXCEPT !.pc = "running", !.tempDir = "present",
                                 !.child = "spawning", !.timer = "armed"]
               ELSE [proc EXCEPT !.pc = "settled", !.result = [state |-> "rejected"]]
    /\ UNCHANGED procRest

\* The child could not be started: the error event.
SpawnFails ==
    /\ proc.child = "spawning"
    /\ proc' = onError(proc)
    /\ UNCHANGED procRest

ChildStarts ==
    /\ proc.child = "spawning"
    /\ proc' = [proc EXCEPT !.child = "running"]
    /\ UNCHANGED procRest

\* child.stdout.on("data"), lines 393-395.
StdoutData(data) ==
    /\ proc.child \in {"running", "exited"}
    /\ Len(proc.stdout) < MaxOutput
    /\ proc' = [proc EXCEPT !.stdout = @ \o data]
    /\ UNCHANGED procRest

\* The tool writes its last message to the file given with -o.
ChildWritesFile ==
    /\ proc.child = "running" /\ proc.wrapped /\ proc.file = ""
    /\ proc' = [proc EXCEPT !.file = "m"]
    /\ UNCHANGED procRest

ChildExits(code) ==
    /\ proc.child = "running"
    /\ proc' = [proc EXCEPT !.child = "exited", !.code = code]
    /\ UNCHANGED procRest

ChildDiesOfSignal ==
    /\ proc.child = "running" /\ proc.signals # {}
    /\ proc' = [proc EXCEPT !.child = "exited", !.code = SignalCode]
    /\ UNCHANGED procRest

TimerFires ==
    /\ proc.timer = "armed" /\ proc.child \in {"running", "exited"}
    /\ proc' = onTimeout(proc)
    /\ UNCHANGED procRest

\* The second timer's callback, lines 385-387.
ForceKillTimerFires ==
    /\ proc.forceKillTimer = "armed"
    /\ proc' = [proc EXCEPT !.forceKillTimer = "fired",
                            !.signals = IF proc.child = "running"
                                        THEN @ \cup {"SIGKILL"} ELSE @]
    /\ UNCHANGED procRest

ChildCloses ==
    /\ proc.child = "exited" /\ proc.promise = Pending
    /\ proc' = onClose(proc)
    /\ UNCHANGED procRest

\* readFile settles, lines 447-452: the file's text, or "" when it is missing.
ReadFileDone ==
    /\ proc.pc = "readFile"
    /\ proc' = [proc EXCEPT !.pc = "rm", !.lastMessage = proc.file]
    /\ UNCHANGED procRest

\* rm of the finally block settles, lines 460-462, and with it the call:
\* with the result of lines 454-459, or with runProcess's rejection.
RmDone ==
    /\ proc.pc = "rm"
    /\ proc' = [proc EXCEPT !.pc = "settled", !.tempDir = "removed", !.file = "",
                            !.result = proc.promise]
    /\ UNCHANGED procRest

NextProc ==
    \/ \E ok \in BOOLEAN : MkdtempDone(ok)
    \/ SpawnFails
    \/ ChildStarts
    \/ \E data \in {"a", "b"} : StdoutData(data)
    \/ ChildWritesFile
    \/ \E code \in {0, 1} : ChildExits(code)
    \/ ChildDiesOfSignal
    \/ TimerFires
    \/ ForceKillTimerFires
    \/ ChildCloses
    \/ ReadFileDone
    \/ RmDone

SpecProc == InitProc /\ [][NextProc]_vars

(***************************************************************************)
(* SpecParse: parseTranslationOutput applied to raw outputs of the tool    *)
(* for a chunk of one or two items: a JSON answer between a prefix and a   *)
(* suffix of commentary, or text without JSON.                             *)
(***************************************************************************)
ItemP1 == [id |-> "p1", text |-> "Hello"]
ItemP2 == [id |-> "p2", text |-> "Bye"]

\* Items whose ids are numerals, as a client may send them.
Item1 == [id |-> "1", text |-> "Hello"]
Item2 == [id |-> "2", text |-> "Bye"]

ParseBatches == {<<ItemP1>>, <<ItemP1, ItemP2>>, <<Item1, Item2>>}

RowP1 == JsRow(JsString("p1"), JsString("A"))
RowP2 == JsRow(JsString("p2"), JsString("{B}"))
RowZz == JsRow(JsString("zz"), JsString("Z"))

\* The rows of an answer: for the chunk's ids in order, in reverse order,
\* for one id only, with a row for an id that is not of the chunk, without
\* ids, and as plain strings.
AnswerRows ==
    {<<RowP1>>, <<RowP1, RowP2>>, <<RowP2, RowP1>>, <<RowP2>>, <<RowZz, RowP1>>, <<RowZz>>,
     <<JsRow(JsUndefined, JsString("A")), JsRow(JsUndefined, JsString("{B}"))>>,
     <<JsRow(JsUndefined, JsString("{B}")), RowP1>>,
     <<JsString("A"), JsString("{B}")>>}

\* The JSON texts: {"results":[...]} for the rows, and the same rows as a
\* bare array, under "translations", and with the text under "translation";
\* rows in reverse order whose ids are numerals, as strings and as numbers.
AnswerTexts ==
    {ResultsJsonText(rows) : rows \in AnswerRows}
        \cup {"[{\"id\":\"p1\",\"translatedText\":\"A\"}]",
              "{\"translations\":[{\"id\":\"p1\",\"translation\":\"A\"}]}",
              "{ \"results\" : [ { \"translatedText\" : \"A\" , \"id\" : \"p1\" } ] }",
              "{\"results\":[{\"id\":\"2\",\"translatedText\":\"T2\"},{\"id\":\"1\",\"translatedText\":\"T1\"}]}",
              "{\"results\":[{\"id\":2,\"translatedText\":\"T2\"},{\"id\":1,\"translatedText\":\"T1\"}]}"}

Prefixes == {"", "Translated: ", "Note [1]: ", "{} ", "{x} ", "He said \"hi\": ", "~~~json\n"}
Suffixes == {"", "\n(end)", " [2]", "\n~~~", " }"}

\* Outputs without an answer in JSON.
PlainTexts == {"", "  ", "hola", " \"hola\" ", "\" hola \"", "\"hola", "\"a\" and \"b\"",
               "say \"hi\"", "[1]", "{}",
               "{\"results\":[]}", "{\"id\":\"p1\"", "~~~\nhola\n~~~",
               "\"\"", "[\"\"]", "[\" \", \"B\"]"}

ParseInputs ==
    {[prefix |-> pre, answer |-> ans, suffix |-> suf, text |-> pre \o ans \o suf,
      batchItems |-> batch] :
        pre \in Prefixes, ans \in AnswerTexts, suf \in Suffixes, batch \in ParseBatches}
    \cup {[prefix |-> "", answer |-> "", suffix |-> "", text |-> text, batchItems |-> batch] :
              text \in PlainTexts, batch \in ParseBatches}

\* The options of a request that sends only items, lines 606-613.
ParseOptions ==
    [NoOptions EXCEPT !.sourceLang = "auto", !.targetLang = "zh-CN", !.mode = "bilingual",
                      !.tone = "natural", !.batchSize = DEFAULT_BATCH_SIZE,
                      !.maxCharsPerItem = DEFAULT_MAX_CHARS]

InitParse ==
    /\ parseIn \in ParseInputs
    /\ parseOut = NotRun
    /\ mergeOut = NotRun
    /\ proc = Off
    /\ SvcOff
    /\ NormOff
    /\ KeyOff
    /\ HistOff

Parse ==
    /\ parseOut = NotRun
    /\ parseOut' = parseTranslationOutput(RawOutput(parseIn.text), parseIn.batchItems)
    /\ UNCHANGED <<parseIn, mergeOut, proc, svcVars, normVars, keyVars, histVars>>

\* Lines 564-576 on the rows returned, for the first chunk of a request and
\* an empty cache.
Merge ==
    /\ parseOut # NotRun
    /\ parseOut.ok
    /\ mergeOut = NotRun
    /\ mergeOut' = mergeLoop(parseIn.batchItems, 1, MapFromRows(parseOut.rows, <<>>),
                             ParseOptions,
                             [resultById |-> <<>>, warnings |-> <<>>, cache |-> <<>>,
                              evicted |-> 0])
    /\ UNCHANGED <<parseIn, parseOut, proc, svcVars, normVars, keyVars, histVars>>

NextParse == Parse \/ Merge

SpecParse == InitParse /\ [][NextParse]_vars

(***************************************************************************)
(* sliceBalancedJson on its own: every text of at most MaxSlice characters *)
(* over the characters the function tells apart, and some longer ones,     *)
(* from every opening brace or bracket, as extractJsonCandidate calls it   *)
(* (lines 270-276).  startIndex counts from 1 here.                        *)
(***************************************************************************)
MaxSlice == 4

SliceChars == {"{", "}", "[", "]", "\"", "\\", "a"}

RECURSIVE TextsUpTo(_)
TextsUpTo(n) ==
    IF n = 0 THEN {""}
    ELSE LET shorter == TextsUpTo(n - 1)
         IN  shorter \cup {text \o char : text \in shorter, char \in SliceChars}

SliceSamples ==
    {"[\"\\\"\"]", "[\"\\\"]\"]", "{\"a\":\"]\"}", "{\"a\":\"\\\\\"}x", "[{\"a\":1}] }",
     "{\"a\":[1,2}", "{\"k\":\"\\\"}\"}", "x {\"a\":\"}\"} y", "[[\"[\"],{\"]\":\"{\"}]]"}

SliceInputs ==
    UNION {{[text |-> text, startIndex |-> startIndex] :
               startIndex \in {i \in 1..Len(text) : CharAt(text, i) \in {"{", "["}}} :
           text \in TextsUpTo(MaxSlice) \cup SliceSamples}

InitSlice ==
    /\ parseIn \in SliceInputs
    /\ parseOut = NotRun
    /\ mergeOut = Off
    /\ proc = Off
    /\ SvcOff
    /\ NormOff
    /\ KeyOff
    /\ HistOff

Slice ==
    /\ parseOut = NotRun
    /\ parseOut' = [t |-> "slice", v |-> sliceBalancedJson(parseIn.text, parseIn.startIndex)]
    /\ UNCHANGED <<parseIn, mergeOut, proc, svcVars, normVars, keyVars, histVars>>

NextSlice == Slice

SpecSlice == InitSlice /\ [][NextSlice]_vars

(***************************************************************************)
(*                               CLAIMS                                    *)
(***************************************************************************)

\* The candidates normalizeItems keeps, by their place in the raw list.
KeptIndices(rawItems) ==
    IF rawItems.t # "array" THEN <<>>
    ELSE LET idx == [i \in 1..Len(rawItems.v) |-> i]
         IN  SelectSeq(idx, LAMBDA i :
                 /\ rawItems.v[i].t = "object"
                 /\ IsString(rawItems.v[i].text)
                 /\ Trim(rawItems.v[i].text.v) # "")

HasUsableId(candidate) == IsString(candidate.id) /\ Trim(candidate.id.v) # ""

\* C2: after normalizeItems the ids of the returned items are pairwise
\* distinct, for every raw list, and every kept candidate without a usable
\* id carries the generated id of its position.
C2_NormalizedIdsDistinct ==
    normOut # NotRun =>
        /\ \A i, j \in 1..Len(normOut.v) : i # j => normOut.v[i].id # normOut.v[j].id
        /\ LET kept == KeptIndices(normIn.rawItems)
           IN  /\ Len(kept) = Len(normOut.v)
               /\ \A k \in 1..Len(kept) :
                      ~HasUsableId(normIn.rawItems.v[kept[k]])
                          => normOut.v[k].id = GeneratedId(kept[k])

\* C8: cacheKey is injective: two (sourceLang, targetLang, model, mode, tone,
\* text) tuples give the same key if and only if they agree on all six parts.
C8_CacheKeyInjective ==
    keyOut # NotRun =>
        ((keyOut.v[1] = keyOut.v[2]) <=> (KeyParts(keyIn[1]) = KeyParts(keyIn[2])))

\* The present key whose entry was inserted earliest.
OldestKey(cache, stamps) ==
    CHOOSE k \in MapKeys(cache) : \A j \in MapKeys(cache) : stamps[k] <= stamps[j]

\* C7: eviction is by insertion order, not recency.  A put that arrives at a
\* full cache removes exactly the entry inserted earliest among the present
\* keys, stores its own key with its value and leaves every other entry
\* retrievable with its value; a read changes neither the entries nor the
\* entry that is evicted next, which in every state is the earliest inserted.
C7_EvictionByInsertionOrder ==
    [][/\ (lastOp'.op = "put" /\ putCount' = putCount + 1
              /\ Len(translationCache) >= MAX_CACHE_SIZE) =>
           LET oldest == OldestKey(translationCache, insertedAt)
               k == lastOp'.key
           IN  /\ MapKeys(translationCache') = (MapKeys(translationCache) \ {oldest}) \cup {k}
               /\ MapGet(translationCache', k) = lastOp'.value
               /\ \A x \in MapKeys(translationCache) \ {oldest, k} :
                      MapGet(translationCache', x) = MapGet(translationCache, x)
       /\ (lastOp'.op = "get" /\ translationCache # <<>>) =>
           /\ translationCache' # <<>>
           /\ translationCache'[1].key = OldestKey(translationCache, insertedAt)
           /\ MapKeys(translationCache') = MapKeys(translationCache)
       /\ translationCache' # <<>> =>
           translationCache'[1].key = OldestKey(translationCache', insertedAt')
      ]_vars

\* capacity + 1 distinct keys were put into the empty cache, with reads in
\* between or not: the first one inserted is gone, the others are present.
C7_Witness ==
    /\ putCount = MAX_CACHE_SIZE + 1
    /\ lastOp.op = "put"
    /\ Cardinality(MapKeys(translationCache)) = MAX_CACHE_SIZE
    /\ {insertedAt[k] : k \in MapKeys(translationCache)} = 2..(MAX_CACHE_SIZE + 1)

(***************************************************************************)
(* Claims about the service.                                               *)
(***************************************************************************)
Succeeded(r) ==
    req[r].kind = "translate" /\ req[r].pc = "done" /\ req[r].response.statusCode = 200

\* The translation subprocess of slot r settles in this step.
ExecSettled(r) == req[r].pc = "exec" /\ req'[r] # req[r]

\* The step merges the chunk that slot r awaited.
Merged(r) ==
    /\ req[r].pc = "exec"
    /\ \/ req'[r].batchIndex = req[r].batchIndex + 1
       \/ req'[r].pc = "done" /\ req'[r].response.statusCode = 200

CountOf(seq, x) == Cardinality({i \in 1..Len(seq) : seq[i] = x})

RECURSIVE Concat(_)
Concat(seqs) == IF seqs = <<>> THEN <<>> ELSE Head(seqs) \o Concat(Tail(seqs))

HasRow(parsedById, id) == MapHas(parsedById, id) /\ MapGet(parsedById, id) # ""

\* C1: for every translate request that succeeds the results list has one
\* entry per normalized item, in the items' order and with the item's id,
\* and no id appears twice in it.
C1_OneResultPerItem ==
    \A r \in Requests : Succeeded(r) =>
        LET items == req[r].options.items
            results == req[r].response.results
        IN  /\ Len(results) = Len(items)
            /\ \A i \in 1..Len(items) : results[i].id = items[i].id
            /\ \A i, j \in 1..Len(results) : i # j => results[i].id # results[j].id

\* C3: an item whose key has an entry in the cache when its request is
\* partitioned is a cache hit: it is counted in cacheHits, it is not pending
\* and so in no chunk sent to the tool, and a request of cache hits only
\* answers without a translation subprocess; meta.cacheHits is the count and
\* meta.generated the rest.  The entry is there because a merge stores one
\* for every chunk item the Extractor produced a row for.
C3_CacheHitOnResubmission ==
    [][\A r \in Requests :
          LET before == req[r]
              after == req'[r]
              items == after.options.items
              isHit(item) == MapHas(translationCache, cacheKey(item, after.options))
              hits == {i \in 1..Len(items) : isHit(items[i])}
          IN  /\ (~before.partitioned /\ after.partitioned) =>
                    /\ after.cacheHits = Cardinality(hits)
                    /\ after.pending = SelectSeq(items, LAMBDA item : ~isHit(item))
                    /\ Concat(after.batches) = after.pending
                    /\ after.execs = IF after.pending = <<>> THEN 0 ELSE 1
                    /\ after.pending = <<>> =>
                           after.pc = "done" /\ after.response.statusCode = 200
              /\ (after.kind = "translate" /\ after.pc = "done"
                      /\ after.response.statusCode = 200) =>
                    /\ after.response.meta.cacheHits = after.cacheHits
                    /\ after.response.meta.generated = Len(items) - after.cacheHits
                    /\ after.execs = Len(after.batches)
              /\ Merged(r) =>
                    LET batch == before.batches[before.batchIndex]
                    IN  Len(batch) <= MAX_CACHE_SIZE =>
                            \A i \in 1..Len(batch) :
                                HasRow(after.parsedById, batch[i].id) =>
                                    MapHas(translationCache', cacheKey(batch[i], before.options))
      ]_vars

\* A request of two items answered from the cache alone.
C3_Witness ==
    \E r \in Requests :
        /\ Succeeded(r)
        /\ req[r].response.meta.total = 2
        /\ req[r].response.meta.cacheHits = 2
        /\ req[r].response.meta.generated = 0
        /\ req[r].execs = 0

Unhealthy(health) == health # JsNull /\ ~(health.codexInstalled /\ health.loggedIn)

\* C4 as stated: when the tool is not installed or not logged in, a translate
\* request with a valid item fails with 503 and its handling starts no
\* subprocess at all.
C4_NoProcessAtAll ==
    \A r \in Requests :
        (req[r].kind = "translate" /\ req[r].pc = "done" /\ Unhealthy(req[r].health)) =>
            /\ req[r].response.statusCode = 503
            /\ req[r].probes + req[r].execs = 0

\* C4, amended: when the snapshot getHealth hands to the gate says the tool
\* is not installed or not logged in, the request fails with 503, starts no
\* translation subprocess and never looks into the cache; the subprocesses
\* it starts are getHealth's probes, two at most.
C4_GateStopsTranslation ==
    \A r \in Requests :
        (req[r].kind = "translate" /\ req[r].pc = "done" /\ Unhealthy(req[r].health)) =>
            /\ req[r].response.statusCode = 503
            /\ req[r].execs = 0
            /\ ~req[r].partitioned
            /\ req[r].probes <= 2

\* A request stopped by the gate after both probes although its item is cached.
C4_Witness ==
    \E r \in Requests :
        /\ req[r].kind = "translate" /\ req[r].pc = "done"
        /\ Unhealthy(req[r].health)
        /\ req[r].response.statusCode = 503
        /\ req[r].probes = 2
        /\ \E i \in 1..Len(req[r].options.items) :
               MapHas(translationCache, cacheKey(req[r].options.items[i], req[r].options))

\* C5: in the merge of a chunk every item without a row gets its own source
\* text as its result and exactly one warning with its id, and every item
\* with a row gets the row's text and no warning.
C5_MissingIdsFallBack ==
    [][\A r \in Requests : Merged(r) =>
          LET batch == req[r].batches[req[r].batchIndex]
              rows == req'[r].parsedById
              added == SubSeq(req'[r].warnings, Len(req[r].warnings) + 1,
                              Len(req'[r].warnings))
          IN  \A i \in 1..Len(batch) :
                  IF HasRow(rows, batch[i].id)
                  THEN /\ MapGet(req'[r].resultById, batch[i].id) = MapGet(rows, batch[i].id)
                       /\ CountOf(added, batch[i].id) = 0
                  ELSE /\ MapGet(req'[r].resultById, batch[i].id) = batch[i].text
                       /\ CountOf(added, batch[i].id) = 1
      ]_vars

\* C6: the translation cache never holds more than MAX_CACHE_SIZE entries
\* (3000 in the source, CacheCapacity here), whatever requests, overlapping
\* or not, put into it; its keys are distinct, so its length is its size.
C6_CacheWithinCapacity ==
    /\ Len(translationCache) <= MAX_CACHE_SIZE
    /\ Cardinality(MapKeys(translationCache)) = Len(translationCache)

\* The cache is full, a put of one request has evicted an entry, and the
\* other request waits for the tool.
C6_Witness ==
    /\ Len(translationCache) = MAX_CACHE_SIZE
    /\ \E r, other \in Requests :
           r # other /\ req[r].evicted > 0 /\ req[other].pc = "exec"

\* C9: when the invocation of a chunk is reported timedOut the request fails
\* with 504, whatever the exit code and the output; the output is not
\* parsed, nothing is merged or cached, and no further invocation starts.
C9_TimeoutFailsRequest ==
    [][\A r \in Requests : (ExecSettled(r) /\ req'[r].codexResult.timedOut) =>
          /\ req'[r].pc = "done"
          /\ req'[r].response.statusCode = 504
          /\ req'[r].response.error = "Codex request timed out"
          /\ req'[r].response.results = <<>>
          /\ translationCache' = translationCache
          /\ req'[r].parsedById = req[r].parsedById
          /\ req'[r].resultById = req[r].resultById
          /\ req'[r].warnings = req[r].warnings
          /\ req'[r].execs = req[r].execs
      ]_vars

\* The second chunk of a request timed out with exit code 0 and a complete
\* answer in the last-message file; the first chunk's entry is in the cache.
C9_Witness ==
    \E r \in Requests :
        /\ req[r].pc = "done" /\ req[r].codexResult # NotRun
        /\ req[r].batchIndex = 2
        /\ req[r].codexResult.timedOut
        /\ req[r].codexResult.code = 0
        /\ req[r].codexResult.lastMessageFile = GoodOutput(req[r].batches[2])
        /\ req[r].response.statusCode = 504
        /\ translationCache # <<>>

\* C10: an invocation that did not time out and exits non-zero fails the
\* request with 502 "Codex exec failed" when the last-message file and the
\* cleaned stdout are both empty; otherwise the output (the file's, else
\* stdout's) goes to parseTranslationOutput as for exit code 0: the chunk is
\* merged when it parses, and the request fails with the parse error when not.
C10_NonZeroExit ==
    [][\A r \in Requests :
          LET codexResult == req'[r].codexResult
          IN  (ExecSettled(r) /\ ~codexResult.spawnError /\ ~codexResult.timedOut
                   /\ codexResult.code # 0) =>
                  LET lastMessage == sanitizeOutput(codexResult.lastMessageFile)
                      cleanStdout == sanitizeOutput(codexResult.stdout)
                      batch == req[r].batches[req[r].batchIndex]
                      parsed == parseTranslationOutput(
                                    IF lastMessage.text # "" THEN lastMessage
                                    ELSE cleanStdout, batch)
                  IN  IF lastMessage.text = "" /\ cleanStdout.text = ""
                      THEN /\ req'[r].pc = "done"
                           /\ req'[r].response.statusCode = 502
                           /\ req'[r].response.error = "Codex exec failed"
                           /\ translationCache' = translationCache
                      ELSE IF parsed.ok
                      THEN /\ Merged(r)
                           /\ req'[r].parsedById = MapFromRows(parsed.rows, <<>>)
                      ELSE /\ req'[r].pc = "done"
                           /\ req'[r].response.statusCode = 502
                           /\ req'[r].response.error = parsed.error
      ]_vars

\* An invocation that exited with code 1 and left nothing failed its request.
C10_Witness ==
    \E r \in Requests :
        /\ req[r].pc = "done" /\ req[r].codexResult # NotRun
        /\ ~req[r].codexResult.timedOut /\ ~req[r].codexResult.spawnError
        /\ req[r].codexResult.code = 1
        /\ req[r].codexResult.lastMessageFile = EmptyOutput
        /\ req[r].codexResult.stdout = EmptyOutput
        /\ req[r].response.statusCode = 502
        /\ req[r].response.error = "Codex exec failed"

\* C11: within a request every chunk is invoked once (the count of
\* invocations is the index of the chunk awaited, never beyond the number of
\* chunks); a chunk that fails starts no further invocation and ends the
\* request with an error response without results, whatever earlier chunks
\* or the cache had resolved; a request that ended starts nothing more.
C11_NoRetryNoPartialResult ==
    [][\A r \in Requests :
          /\ req'[r].pc = "exec" =>
                /\ req'[r].execs = req'[r].batchIndex
                /\ req'[r].batchIndex <= Len(req'[r].batches)
          /\ (ExecSettled(r) /\ ~Merged(r)) =>
                /\ req'[r].pc = "done"
                /\ req'[r].response.statusCode \in {500, 502, 504}
                /\ req'[r].response.results = <<>>
                /\ req'[r].response.warnings = <<>>
                /\ req'[r].execs = req[r].execs
                /\ req'[r].batchIndex = req[r].batchIndex
                /\ translationCache' = translationCache
          /\ (req[r].pc = "done" /\ req'[r] # req[r]) =>
                /\ req'[r].pc \in {"readBody", "probeVersion"}
                /\ req'[r].execs = 0
      ]_vars

\* The second chunk of a request failed after the first one was merged: the
\* first chunk's result is known to the handler, the response has none.
C11_Witness ==
    \E r \in Requests :
        /\ req[r].pc = "done"
        /\ req[r].response.statusCode = 502
        /\ Len(req[r].batches) = 2
        /\ req[r].batchIndex = 2
        /\ req[r].execs = 2
        /\ req[r].resultById # <<>>
        /\ req[r].response.results = <<>>

Failed(r) ==
    req[r].kind = "translate" /\ req[r].pc = "done" /\ req[r].response.statusCode # 200

\* Why a translate request failed, from what its handler met.
Cause(r) ==
    IF req[r].options.items = <<>> THEN "bad-request"
    ELSE IF req[r].codexResult = NotRun THEN "service-unavailable"
    ELSE IF req[r].codexResult.spawnError THEN "spawn-error"
    ELSE IF req[r].codexResult.timedOut THEN "upstream-timeout"
    ELSE IF /\ req[r].codexResult.code # 0
            /\ sanitizeOutput(req[r].codexResult.lastMessageFile).text = ""
            /\ sanitizeOutput(req[r].codexResult.stdout).text = ""
    THEN "upstream-failure"
    ELSE "parse-failure"

ListedCauses ==
    {"bad-request", "service-unavailable", "upstream-timeout", "upstream-failure",
     "parse-failure"}

\* C12: the kind an error response carries, its status code (the body holds
\* only ok and the message), is distinct for distinct failure causes: two
\* failed requests with different causes never carry the same status code.
C12_DistinctKindPerCause ==
    \A r1, r2 \in Requests :
        (/\ Failed(r1) /\ Failed(r2)
         /\ Cause(r1) \in ListedCauses /\ Cause(r2) \in ListedCauses
         /\ Cause(r1) # Cause(r2))
            => req[r1].response.statusCode # req[r2].response.statusCode

\* C13: a translate request whose items normalize to the empty list (no
\* list, an empty one, or only blank texts) ends, in the step that reads
\* its body, with 400 and without results; it has started no probe and no
\* translation subprocess, and the cache and the stored health snapshot with
\* its age are as before.
C13_NoItemsIsBadRequest ==
    [][\A r \in Requests :
          (req[r].pc = "readBody" /\ req'[r] # req[r] /\ req'[r].options.items = <<>>) =>
              /\ req'[r].pc = "done"
              /\ req'[r].response.statusCode = 400
              /\ req'[r].response.error = "No translatable items were provided"
              /\ req'[r].response.results = <<>>
              /\ req'[r].probes = 0
              /\ req'[r].execs = 0
              /\ ~req'[r].partitioned
              /\ translationCache' = translationCache
              /\ healthSnapshot' = healthSnapshot
              /\ healthSnapshotAgeMs' = healthSnapshotAgeMs
      ]_vars

\* A request without items was refused while the stored snapshot had
\* expired and the cache held an entry.
C13_Witness ==
    \E r \in Requests :
        /\ req[r].kind = "translate" /\ req[r].pc = "done"
        /\ req[r].options.items = <<>>
        /\ req[r].response.statusCode = 400
        /\ req[r].probes = 0
        /\ healthSnapshot # JsNull
        /\ healthSnapshotAgeMs = HEALTH_TTL_MS
        /\ translationCache # <<>>

\* C14: runProcess hands over a result only when the child has closed, so
\* has terminated; the result says timedOut exactly when the timer fired
\* before the close, so it says TRUE when the child was still running at
\* the expiry and FALSE when the child closed before the timer fired; and
\* until the close the promise stays pending.
C14_TimedOutReportedAfterExit ==
    /\ proc.promise.state = "resolved" =>
          /\ proc.child = "closed"
          /\ proc.promise.timedOut = (proc.timer = "fired")
          /\ proc.runningAtExpiry => proc.promise.timedOut
          /\ proc.promise.timedOut => proc.forceKillTimer # "armed"
    /\ proc.child \in {"spawning", "running", "exited"} => proc.promise = Pending
    /\ proc.runningAtExpiry => proc.timedOut /\ "SIGTERM" \in proc.signals

\* The child ignored SIGTERM, was killed by the second timer, and the result
\* says timedOut; every data chunk that came before is in it.
C14_Witness ==
    /\ proc.promise.state = "resolved"
    /\ proc.promise.timedOut
    /\ proc.runningAtExpiry
    /\ proc.signals = {"SIGTERM", "SIGKILL"}
    /\ proc.promise.code = SignalCode
    /\ proc.child = "closed"

\* C15: when a call of runCodexTranslation has settled, resolved or
\* rejected, the temporary directory it made is removed; the directory
\* exists from mkdtemp on while the child runs.
C15_TempDirRemoved ==
    proc.wrapped =>
        /\ proc.pc = "settled" => proc.tempDir # "present" /\ proc.result # Pending
        /\ proc.child \in {"spawning", "running", "exited"} => proc.tempDir = "present"
        /\ proc.tempDir = "removed" => proc.pc = "settled"

\* The call settled with a rejection after the child could not be spawned,
\* and the directory made for it is removed.
C15_Witness ==
    /\ proc.wrapped
    /\ proc.pc = "settled"
    /\ proc.child = "failed"
    /\ proc.result.state = "rejected"
    /\ proc.tempDir = "removed"

\* C16: a getHealth call that is not forced (the one of a translate request)
\* and finds a stored snapshot younger than 10 s returns it and starts no
\* probe, and otherwise starts the version probe; the forced call of GET
\* /health always starts the version probe; and when a call's probes are
\* done, the snapshot it returns is the stored one, of age 0.
C16_SnapshotReusedWithinTtl ==
    [][\A r \in Requests :
          /\ (req[r].pc = "readBody" /\ req'[r] # req[r] /\ req'[r].options.items # <<>>) =>
                IF healthSnapshot # JsNull /\ healthSnapshotAgeMs < 10000
                THEN /\ req'[r].health = healthSnapshot
                     /\ req'[r].probes = 0
                     /\ req'[r].pc \notin {"probeVersion", "probeLogin"}
                     /\ healthSnapshot' = healthSnapshot
                     /\ healthSnapshotAgeMs' = healthSnapshotAgeMs
                ELSE /\ req'[r].pc = "probeVersion"
                     /\ req'[r].probes = 1
                     /\ req'[r].health = JsNull
          /\ (req[r].pc \in {"idle", "done"} /\ req'[r].kind = "health"
                  /\ req'[r] # req[r]) =>
                /\ req'[r].pc = "probeVersion"
                /\ req'[r].probes = 1
                /\ req'[r].health = JsNull
          /\ (req[r].pc \in {"probeVersion", "probeLogin"} /\ req'[r].health # JsNull) =>
                /\ healthSnapshot' = req'[r].health
                /\ healthSnapshotAgeMs' = 0
      ]_vars

\* A translate request was served with the stored snapshot, without a
\* probe, while the snapshot was TickMs old.
C16_Witness ==
    \E r \in Requests :
        /\ req[r].kind = "translate" /\ req[r].pc = "done"
        /\ req[r].health # JsNull
        /\ req[r].health = healthSnapshot
        /\ req[r].probes = 0
        /\ healthSnapshotAgeMs = TickMs

\* The answer is of the expected shape: an object whose results are
\* objects with a string id and a string translatedText.
ExpectedShape(parsed) ==
    /\ parsed.t = "object" /\ parsed.results.t = "array"
    /\ \A i \in 1..Len(parsed.results.v) :
           /\ parsed.results.v[i].t = "object"
           /\ IsString(parsed.results.v[i].id)
           /\ IsString(parsed.results.v[i].translatedText)

\* The answer has a row, with a text, for an item of the chunk.
HasValidRow(parsed, batchItems) ==
    \E i \in 1..Len(parsed.results.v), k \in 1..Len(batchItems) :
        /\ parsed.results.v[i].id = JsString(batchItems[k].id)
        /\ Trim(parsed.results.v[i].translatedText.v) # ""

\* C17: for an output prefix + J + suffix, J a JSON record of the expected
\* shape with at least one valid row for the chunk, the extractor returns
\* exactly the rows of J, whatever the commentary around J.
C17_RecoversJsonInsideProse ==
    (parseOut # NotRun /\ parseIn.answer # "") =>
        LET parsed == JSONparse(parseIn.answer)
        IN  (parsed.ok /\ ExpectedShape(parsed.v)
                 /\ HasValidRow(parsed.v, parseIn.batchItems)) =>
                /\ parseOut.ok
                /\ parseOut.rows = normalizeParsedResults(parsed.v, parseIn.batchItems)

\* No structured recovery path yields a row for the chunk.
NoRowRecovered ==
    LET json == RawOutput(parseIn.text).json
    IN  json = NoJson \/ normalizeParsedResults(json, parseIn.batchItems) = <<>>

\* The text without one double quote at its start and one at its end.
WithoutOuterQuotes(text) ==
    LET a == IF Len(text) > 0 /\ CharAt(text, 1) = "\"" THEN SubSeq(text, 2, Len(text))
             ELSE text
    IN  IF Len(a) > 0 /\ CharAt(a, Len(a)) = "\"" THEN SubSeq(a, 1, Len(a) - 1) ELSE a

ExtractionError == "Unable to parse Codex output as translation JSON"

\* C18 as stated: for a chunk of one item and any non-empty raw output from
\* which no structured row is recovered, the extractor returns one row with
\* the item's id whose text is the trimmed output with one leading and one
\* trailing double quote stripped; for a chunk of two or more items the same
\* situation raises the extraction error.
C18_PlainTextFallback ==
    (parseOut # NotRun /\ parseIn.text # "" /\ NoRowRecovered) =>
        IF Len(parseIn.batchItems) = 1
        THEN /\ parseOut.ok
             /\ parseOut.rows =
                    <<[id |-> parseIn.batchItems[1].id,
                       translatedText |-> WithoutOuterQuotes(Trim(parseIn.text))]>>
        ELSE ~parseOut.ok /\ parseOut.error = ExtractionError

\* C18 amended: for any raw output that is not blank and from which no
\* structured row is recovered, a chunk of one item gets one row with the
\* item's id whose text is the trimmed output with one leading and one
\* trailing double quote stripped and then trimmed again; a chunk of two or
\* more items raises the extraction error.
C18_PlainTextFallbackTrimmedTwice ==
    (parseOut # NotRun /\ Trim(parseIn.text) # "" /\ NoRowRecovered) =>
        IF Len(parseIn.batchItems) = 1
        THEN /\ parseOut.ok
             /\ parseOut.rows =
                    <<[id |-> parseIn.batchItems[1].id,
                       translatedText |-> Trim(WithoutOuterQuotes(Trim(parseIn.text)))]>>
        ELSE ~parseOut.ok /\ parseOut.error = ExtractionError

\* A quoted answer for a chunk of one item came back without its quotes.
C18_Witness ==
    /\ parseOut # NotRun
    /\ parseIn.text = " \"hola\" "
    /\ Len(parseIn.batchItems) = 1
    /\ NoRowRecovered
    /\ parseOut.ok
    /\ parseOut.rows = <<[id |-> "p1", translatedText |-> "hola"]>>

\* The rows of the JSON value the extractor took from the output.
TakenRows ==
    LET json == RawOutput(parseIn.text).json
    IN  IF json = NoJson THEN <<>> ELSE ParsedRows(json)

\* The translated text a row carries.
TextOfRow(row) ==
    IF IsString(row) THEN Trim(row.v)
    ELSE IF row.t = "object" THEN Trim(RowText(row)) ELSE ""

\* The row at place i may give its text to the item at place k of the chunk:
\* its own id is the item's, or it has no id and i = k.
MayTranslate(rows, i, batch, k) ==
    \/ rows[i].t = "object" /\ IsString(rows[i].id) /\ rows[i].id.v = batch[k].id
    \/ /\ i = k
       /\ \/ IsString(rows[i])
          \/ rows[i].t = "object" /\ rows[i].id.t \in {"undefined", "null"}

FromOwnRow(batch, k, translated) ==
    \E i \in 1..Len(TakenRows) :
        TextOfRow(TakenRows[i]) = translated /\ MayTranslate(TakenRows, i, batch, k)

Warned(id) == \E w \in 1..Len(mergeOut.warnings) : mergeOut.warnings[w] = id

\* C19: when rows were recovered from the output, the translation an item of
\* the chunk gets as its result, and the value cached for it, is the text of
\* a row whose own id is the item's id or of a row without an id at the
\* item's place; an item without such a row keeps its source text, so a row
\* with another id, of the chunk or not, changes no result and no entry.
C19_NoMisattribution ==
    (mergeOut # NotRun /\ ~NoRowRecovered) =>
        \A k \in 1..Len(parseIn.batchItems) :
            LET item == parseIn.batchItems[k]
                key == cacheKey(item, ParseOptions)
            IN  /\ IF Warned(item.id)
                   THEN MapGet(mergeOut.resultById, item.id) = item.text
                   ELSE FromOwnRow(parseIn.batchItems, k,
                                   MapGet(mergeOut.resultById, item.id))
                /\ MapHas(mergeOut.cache, key) =>
                       FromOwnRow(parseIn.batchItems, k, MapGet(mergeOut.cache, key))

\* C20: in every successful response meta.total is the number of normalized
\* items and is meta.cacheHits + meta.generated, meta.cacheHits is the number
\* of items resolved from the cache (those not sent to the tool) and
\* meta.generated the number of items the tool newly translated in this
\* request: the items sent to it, less those that fell back to their source
\* text with a warning.
C20_MetaCounts ==
    \A r \in Requests : Succeeded(r) =>
        LET meta == req[r].response.meta
            items == req[r].options.items
        IN  /\ meta.total = Len(items)
            /\ meta.total = meta.cacheHits + meta.generated
            /\ meta.cacheHits = Len(items) - Len(req[r].pending)
            /\ meta.generated = Len(req[r].pending) - Len(req[r].warnings)

\* C21: every item normalizeItems returns has a text of at most
\* maxCharsPerItem characters, the clipped ones with their truncation marker
\* included.
C21_TextWithinBound ==
    normOut # NotRun =>
        \A i \in 1..Len(normOut.v) : Len(normOut.v[i].text) <= normIn.maxCharsPerItem

\* The signals a step sends to the child.
Sent == proc'.signals \ proc.signals

\* C22: the graceful signal is sent only by the timeout's expiry, to a child
\* that has not closed; the kill signal is sent only after the graceful one,
\* by the expiry of the grace timer that the timeout armed, to a child that
\* has still not closed; a child that has closed (before the timeout or
\* within the grace period) or failed to start is sent no signal.
C22_SignalsFollowLifecycle ==
    [][/\ "SIGTERM" \in Sent =>
              /\ proc.timer = "armed" /\ proc'.timer = "fired"
              /\ proc.child = "running"
              /\ "SIGKILL" \notin proc'.signals
       /\ "SIGKILL" \in Sent =>
              /\ "SIGTERM" \in proc.signals
              /\ proc.timer = "fired"
              /\ proc.forceKillTimer = "armed" /\ proc'.forceKillTimer = "fired"
              /\ proc.child = "running"
       /\ proc.child \in {"closed", "failed"} =>
              /\ Sent = {}
              /\ proc'.child = proc.child
       /\ (proc'.child = "closed" /\ proc.child # "closed") =>
              /\ proc'.timer # "armed"
              /\ proc'.forceKillTimer # "armed"
      ]_vars

\* A child that outlived the grace period was sent both signals and closed.
C22_Witness ==
    /\ proc.signals = {"SIGTERM", "SIGKILL"}
    /\ proc.child = "closed"
    /\ proc.timedOut

\* C23: within one request the invocation of a chunk is spawned only by the
\* step that enters the loop (chunk 1) or by the step in which the
\* invocation of the chunk before has settled and its rows were extracted
\* and merged; the invocations spawned are as many as the index of the chunk
\* awaited, so one request never has two of them running.
C23_ChunksSerial ==
    [][\A r \in Requests :
          LET before == req[r]
              after == req'[r]
          IN  (after.pc = "exec" /\ after # before) =>
                  /\ after.execs = before.execs + 1
                  /\ after.execs = after.batchIndex
                  /\ after.batchIndex <= Len(after.batches)
                  /\ IF before.pc = "exec"
                     THEN /\ after.batchIndex = before.batchIndex + 1
                          /\ after.codexResult # NotRun
                          /\ \A i \in 1..Len(before.batches[before.batchIndex]) :
                                 MapHas(after.resultById,
                                        before.batches[before.batchIndex][i].id)
                     ELSE after.batchIndex = 1 /\ before.execs = 0
      ]_vars

\* The second chunk of a request is awaited, the first one merged.
C23_Witness ==
    \E r \in Requests :
        /\ req[r].pc = "exec"
        /\ req[r].batchIndex = 2
        /\ req[r].execs = 2
        /\ Len(req[r].batches) = 2
        /\ MapHas(req[r].resultById, req[r].batches[1][1].id)

\* The handler of slot r awaits a subprocess of the tool: a probe or the
\* invocation of a chunk.
ToolRunning(r) == req[r].pc \in {"probeVersion", "probeLogin", "exec"}

\* C24: across all overlapping requests, translate requests and health
\* probes, at no moment are two subprocesses of the tool running.
C24_OneInvocationAtATime ==
    Cardinality({r \in Requests : ToolRunning(r)}) <= 1

\* C25: a cache put is one atomic step under any interleaving of requests.
\* Every step that changes the cache is the merge of one request's chunk, in
\* which no other request reads, writes or moves; it removes at most one
\* entry per put, and only the oldest of a full cache; after it the key of
\* every item put maps to the item's translation; and every other entry is
\* still there with its value.
C25_PutIsAtomic ==
    [][translationCache' # translationCache =>
          \E r \in Requests :
              /\ Merged(r)
              /\ \A other \in Requests \ {r} : req'[other] = req[other]
              /\ LET batch == req[r].batches[req[r].batchIndex]
                     options == req[r].options
                     rows == req'[r].parsedById
                     put == {i \in 1..Len(batch) : HasRow(rows, batch[i].id)}
                     putKeys == {cacheKey(batch[i], options) : i \in put}
                     removed == MapKeys(translationCache) \ MapKeys(translationCache')
                 IN  /\ Cardinality(removed) <= Cardinality(put)
                     /\ (Cardinality(put) = 1 /\ removed # {}) =>
                            /\ Len(translationCache) >= MAX_CACHE_SIZE
                            /\ removed = {translationCache[1].key}
                     /\ Cardinality(put) = 1 =>
                            \A i \in put :
                                /\ MapHas(translationCache', cacheKey(batch[i], options))
                                /\ MapGet(translationCache', cacheKey(batch[i], options))
                                       = MapGet(rows, batch[i].id)
                     /\ \A k \in MapKeys(translationCache) \ (removed \cup putKeys) :
                            MapGet(translationCache', k) = MapGet(translationCache, k)
                     /\ MapKeys(translationCache') \subseteq
                            MapKeys(translationCache) \cup putKeys
      ]_vars

\* A put of one request has evicted the oldest entry of the full cache and
\* stored its own, while the other request waits for the tool.
C25_Witness ==
    \E r, other \in Requests :
        /\ r # other
        /\ Succeeded(r)
        /\ req[r].evicted = 1
        /\ req[other].pc = "exec"
        /\ Len(translationCache) = MAX_CACHE_SIZE
        /\ MapHas(translationCache, cacheKey(req[r].options.items[1], req[r].options))

\* C26: getHealth's check of the stored snapshot and its refresh exclude one
\* another.  Of the translate requests, whose getHealth call looks at the
\* stored snapshot first, at most one is inside a probe sequence (awaiting
\* the version query or the login-status query) at any time.
Probing(r) == req[r].kind = "translate" /\ req[r].pc \in {"probeVersion", "probeLogin"}

C26_OneProbeSequence == Cardinality({r \in Requests : Probing(r)}) <= 1

\* The string literals of text from index from on, as pairs of the places of
\* their quotes: a literal opens at the first quote outside a literal and
\* closes at the next quote that an even number of backslashes precedes; a
\* literal that never closes runs to the end.
BackslashesBefore(text, open, i) ==
    LET runs == {n \in 0..(i - open - 1) :
                    \A k \in 1..n : CharAt(text, i - k) = "\\"}
    IN  CHOOSE n \in runs : \A m \in runs : m <= n

RECURSIVE Literals(_, _)
Literals(text, from) ==
    LET opens == {i \in from..Len(text) : CharAt(text, i) = "\""}
    IN  IF opens = {} THEN {}
        ELSE LET open == CHOOSE i \in opens : \A j \in opens : i <= j
                 closes == {i \in (open + 1)..Len(text) :
                               /\ CharAt(text, i) = "\""
                               /\ BackslashesBefore(text, open, i) % 2 = 0}
             IN  IF closes = {} THEN {<<open, Len(text) + 1>>}
                 ELSE LET close == CHOOSE i \in closes : \A j \in closes : i <= j
                      IN  {<<open, close>>} \cup Literals(text, close + 1)

\* The places of the braces and brackets outside the literals, and the
\* nesting depth after place i.
Outside(text, from) ==
    {i \in from..Len(text) : \A lit \in Literals(text, from) : i < lit[1] \/ i > lit[2]}

Openers(text, from) == {i \in Outside(text, from) : CharAt(text, i) \in {"{", "["}}
Closers(text, from) == {i \in Outside(text, from) : CharAt(text, i) \in {"}", "]"}}

Depth(text, from, i) ==
    Cardinality({j \in Openers(text, from) : j <= i})
        - Cardinality({j \in Closers(text, from) : j <= i})

\* The opener a closer at place i closes: the last one before it that left
\* the depth one above the depth after i.
OpenerOf(text, from, i) ==
    LET before == {j \in Openers(text, from) :
                      j < i /\ Depth(text, from, j) = Depth(text, from, i) + 1}
    IN  CHOOSE j \in before : \A k \in before : k <= j

Matches(text, from, i) ==
    LET pair == <<CharAt(text, OpenerOf(text, from, i)), CharAt(text, i)>>
    IN  pair \in {<<"{", "}">>, <<"[", "]">>}

\* The slice the claim describes, "" for null.
BalancedSlice(text, from) ==
    LET ends == {i \in Closers(text, from) : Depth(text, from, i) = 0}
    IN  IF ends = {} THEN ""
        ELSE LET end == CHOOSE i \in ends : \A j \in ends : i <= j
             IN  IF \A i \in Closers(text, from) : i <= end => Matches(text, from, i)
                 THEN SubSeq(text, from, end)
                 ELSE ""

\* C27: started at an opening brace or bracket, sliceBalancedJson returns
\* the text up to the first place where the depth of braces and brackets
\* outside string literals is zero again, and null when a closer before
\* that place does not match its opener or the depth never returns to zero;
\* braces and brackets inside a literal do not count, and a quote after a
\* backslash that escapes it does not end the literal.
C27_SliceIsFirstBalanced ==
    (parseOut # NotRun /\ parseOut.t = "slice") =>
        parseOut.v = BalancedSlice(parseIn.text, parseIn.startIndex)

\* A slice was returned whose literal holds an escaped quote followed by a
\* closing bracket.
C27_Witness ==
    /\ parseOut # NotRun
    /\ parseOut.t = "slice"
    /\ parseIn.text = "[\"\\\"]\"]"
    /\ parseOut.v = parseIn.text

\* C28: every row the extractor returns has a non-empty id and a non-empty
\* translated text, whichever way the rows were recovered.
C28_RowsNonEmpty ==
    (parseOut # NotRun /\ parseOut.ok) =>
        \A i \in 1..Len(parseOut.rows) :
            parseOut.rows[i].id # "" /\ parseOut.rows[i].translatedText # ""

\* C29: normalizeItems returns, in their order in the raw list, one item for
\* each candidate that is an object whose text is a string that is not empty
\* after trimming, and for no other; the item's id is the candidate's id
\* trimmed when that is a non-empty string, and item-N for the candidate's
\* place N in the raw list otherwise; what is not a list gives the empty
\* list; and the call changes neither its input nor the server's state.
C29_KeepsExactlyTheTranslatable ==
    /\ [](normOut # NotRun =>
             LET kept == KeptIndices(normIn.rawItems)
             IN  /\ normOut.t = "items"
                 /\ Len(normOut.v) = Len(kept)
                 /\ \A k \in 1..Len(kept) :
                        LET candidate == normIn.rawItems.v[kept[k]]
                        IN  /\ normOut.v[k].id =
                                   IF HasUsableId(candidate) THEN Trim(candidate.id.v)
                                   ELSE "item-" \o ToString(kept[k])
                            /\ normOut.v[k].text =
                                   Clip(Trim(ReplaceCrLf(candidate.text.v)),
                                        normIn.maxCharsPerItem)
                 /\ normIn.rawItems.t # "array" => normOut.v = <<>>)
    /\ [][UNCHANGED <<normIn, translationCache, healthSnapshot, healthSnapshotAgeMs, req>>]_vars

\* The second of two candidates was kept under its generated id after the
\* first, which is null, was dropped.
C29_Witness ==
    /\ normOut # NotRun
    /\ normIn.rawItems.t = "array"
    /\ Len(normIn.rawItems.v) = 2
    /\ normIn.rawItems.v[1] = JsNull
    /\ normOut.v = <<[id |-> "item-2", text |-> "y"]>>

\* a / b rounded up, for b > 0.
CeilDiv(a, b) == (a + b - 1) \div b

\* C30: once a request is partitioned, each of its chunks holds between 1
\* and batchSize items, the chunks joined in order are the pending items in
\* their order, so there are ceil(pending / batchSize) chunks; and a
\* request that succeeded has spawned exactly that many translation
\* invocations.
C30_ChunksCoverPending ==
    \A r \in Requests : req[r].partitioned =>
        LET batches == req[r].batches
            pending == req[r].pending
            batchSize == req[r].options.batchSize
        IN  /\ \A i \in 1..Len(batches) :
                   Len(batches[i]) >= 1 /\ Len(batches[i]) <= batchSize
            /\ Concat(batches) = pending
            /\ Len(batches) = CeilDiv(Len(pending), batchSize)
            /\ Succeeded(r) => req[r].execs = CeilDiv(Len(pending), batchSize)

\* A request of two pending items and batchSize 1 succeeded after two
\* invocations.
C30_Witness ==
    \E r \in Requests :
        /\ Succeeded(r)
        /\ req[r].options.batchSize = 1
        /\ Len(req[r].pending) = 2
        /\ Len(req[r].batches) = 2
        /\ req[r].execs = 2

\* What the claim gives for a numeric option: the default for what is not a
\* number, the nearest bound for a number outside [min, max], the number
\* itself when it is whole and inside, and its whole part otherwise.
IsClamped(result, value, min, max, fallback) ==
    /\ result \in min..max
    /\ value.t # "number" => result = fallback
    /\ value.t = "number" =>
           IF value.inf # 0 THEN result = (IF value.inf > 0 THEN max ELSE min)
           ELSE /\ value.v < min * value.d => result = min
                /\ value.v > max * value.d => result = max
                /\ (value.v >= min * value.d /\ value.v <= max * value.d) =>
                       /\ result * value.d <= value.v
                       /\ value.v < (result + 1) * value.d

IsWordOr(result, value, words, fallback) ==
    IF value.t = "string" /\ value.v \in words THEN result = value.v ELSE result = fallback

\* C31: for every body the effective batchSize is an integer in [1, 20] and
\* the effective maxCharsPerItem an integer in [100, 5000], clamped to the
\* nearest bound or defaulted to 6 and 1200; a mode or tone that is not a
\* known one is bilingual or natural; and the request is rejected only when
\* the body has no translatable item, whatever the options are.
C31_OptionsClampedNeverRejected ==
    keyOut # NotRun /\ keyOut.t = "options" =>
        /\ IsClamped(keyOut.v.batchSize, keyIn.batchSize, 1, 20, 6)
        /\ IsClamped(keyOut.v.maxCharsPerItem, keyIn.maxCharsPerItem, 100, 5000, 1200)
        /\ IsWordOr(keyOut.v.mode, keyIn.mode, {"bilingual", "translation-only"}, "bilingual")
        /\ IsWordOr(keyOut.v.tone, keyIn.tone, {"natural", "faithful", "concise"}, "natural")
        /\ keyOut.rejected <=> keyIn.items = JsUndefined

\* A body with a fractional batchSize, an infinite maxCharsPerItem, an
\* unknown mode and a tone that is not a string was accepted.
C31_Witness ==
    /\ keyOut # NotRun
    /\ keyOut.t = "options"
    /\ keyIn.batchSize = JsFraction(41, 2)
    /\ keyIn.maxCharsPerItem = JsInfinity(1)
    /\ keyIn.mode = JsString("fancy")
    /\ keyIn.tone = JsNull
    /\ ~keyOut.rejected
    /\ keyOut.v.batchSize = 20
    /\ keyOut.v.maxCharsPerItem = 5000

\* C32: a translate request that fails after it passed the health gate (its
\* items were partitioned) is answered with the status of a timeout of the
\* tool (504) or of a failure of the tool or of the extraction (502), also
\* when the tool could not be spawned for the chunk.
C32_ChunkFailuresClassified ==
    \A r \in Requests :
        (Failed(r) /\ req[r].partitioned) => req[r].response.statusCode \in {502, 504}

\* The entries of the cache after a step that it did not hold before.
Stored ==
    {k \in MapKeys(translationCache') :
        ~MapHas(translationCache, k) \/ MapGet(translationCache', k) # MapGet(translationCache, k)}

\* Every entry a step stores is the non-empty text of a row returned for an
\* item, with that key, of the chunk some request merges in the step.
StoredFromRows ==
    \A k \in Stored :
        /\ MapGet(translationCache', k) # ""
        /\ \E r \in Requests :
               /\ req[r].pc = "exec"
               /\ LET batch == req[r].batches[req[r].batchIndex]
                  IN  \E i \in 1..Len(batch) :
                          /\ cacheKey(batch[i], req[r].options) = k
                          /\ HasRow(req'[r].parsedById, batch[i].id)
                          /\ MapGet(translationCache', k) =
                                 MapGet(req'[r].parsedById, batch[i].id)

\* The places of the chunk merged by slot r whose items fell back.
FellBack(r) ==
    LET batch == req[r].batches[req[r].batchIndex]
    IN  {i \in 1..Len(batch) : ~HasRow(req'[r].parsedById, batch[i].id)}

\* C33 as stated: every cache value is the non-empty text of a row returned
\* for an item with its key, and an item that fell back to its source text
\* has no entry after the merge, so that it is pending when submitted again.
C33_FallbackNeverCached ==
    [][/\ StoredFromRows
       /\ \A r \in Requests : Merged(r) =>
              \A i \in FellBack(r) :
                  ~MapHas(translationCache',
                          cacheKey(req[r].batches[req[r].batchIndex][i], req[r].options))
      ]_vars

\* C33 amended: every cache value is the non-empty text of a row returned
\* for an item with its key; an item that fell back has an entry after the
\* merge only if the entry was there before the merge or an item of the
\* same chunk with the same key had a row, and that entry never comes from
\* the fallback.
C33_FallbackNotStored ==
    [][/\ StoredFromRows
       /\ \A r \in Requests : Merged(r) =>
              LET batch == req[r].batches[req[r].batchIndex]
                  keyOf(i) == cacheKey(batch[i], req[r].options)
              IN  \A i \in FellBack(r) :
                      MapHas(translationCache', keyOf(i)) =>
                          \/ /\ MapHas(translationCache, keyOf(i))
                             /\ keyOf(i) \notin Stored
                          \/ \E j \in 1..Len(batch) :
                                 /\ j \notin FellBack(r)
                                 /\ keyOf(j) = keyOf(i)
      ]_vars

\* A request succeeded with an item that fell back and has no entry, while
\* the translation of its other item is in the cache.
C33_Witness ==
    \E r \in Requests :
        /\ Succeeded(r)
        /\ Len(req[r].options.items) = 2
        /\ req[r].warnings = <<req[r].options.items[2].id>>
        /\ ~MapHas(translationCache, cacheKey(req[r].options.items[2], req[r].options))
        /\ MapHas(translationCache, cacheKey(req[r].options.items[1], req[r].options))

\* The step spawns the translation invocation of a chunk of slot r.
Spawned(r) ==
    /\ req'[r].pc = "exec"
    /\ req[r].pc # "exec" \/ req'[r].batchIndex # req[r].batchIndex

\* C34: at the moment the invocation of a chunk is spawned, the cache holds
\* no entry for the key of any item of the chunk.
C34_NoCachedItemIsSent ==
    [][\A r \in Requests : Spawned(r) =>
          LET batch == req'[r].batches[req'[r].batchIndex]
          IN  \A i \in 1..Len(batch) :
                  ~MapHas(translationCache', cacheKey(batch[i], req'[r].options))
      ]_vars

\* C35: a put for a key that is present replaces the value of that key and
\* nothing else: the keys of the cache are the same after it and every other
\* key has the value it had, whether or not the cache is full.
C35_PutOfPresentKeyReplaces ==
    [][(putCount' = putCount + 1 /\ MapHas(translationCache, lastOp'.key)) =>
          /\ MapKeys(translationCache') = MapKeys(translationCache)
          /\ MapGet(translationCache', lastOp'.key) = lastOp'.value
          /\ \A k \in MapKeys(translationCache) \ {lastOp'.key} :
                 MapGet(translationCache', k) = MapGet(translationCache, k)
      ]_vars

\* The step in which the chunk slot r awaited fails the request.
FailsAtChunk(r) ==
    /\ req[r].pc = "exec"
    /\ req'[r].pc = "done"
    /\ req'[r].response.statusCode # 200

\* The items of the chunks before the one awaited whose translations were
\* merged, and those of them that have no entry after the step.
MergedBefore(r) ==
    LET rec == req[r]
    IN  {item \in UNION {{rec.batches[j][i] : i \in 1..Len(rec.batches[j])} :
                            j \in 1..(rec.batchIndex - 1)} :
            CountOf(rec.warnings, item.id) = 0}

MergedButGone(r) ==
    {item \in MergedBefore(r) : ~MapHas(translationCache', cacheKey(item, req[r].options))}

\* The step partitions the items of slot r: exactly the items with an entry
\* are cache hits, and the others, in order, are what is sent to the tool.
HitsAreNotSent(r) ==
    (~req[r].partitioned /\ req'[r].partitioned) =>
        req'[r].pending =
            SelectSeq(req'[r].options.items,
                      LAMBDA item : ~MapHas(translationCache, cacheKey(item, req'[r].options)))

====
